---------------------------- MODULE Spec2Model ----------------------------
(***************************************************************************)
(* Plugin package-management core of etools (src-tauri):                   *)
(*   - the ETP metadata validator (models/plugin_metadata.rs),             *)
(*   - the lifecycle service with its TTL caches                           *)
(*     (services/plugin_service.rs),                                       *)
(*   - the command-layer Enablement store (cmds/plugins.rs),               *)
(*   - bulk enable / disable / uninstall (services/plugin_service.rs,      *)
(*     cmds/plugins.rs),                                                   *)
(*   - marketplace install / uninstall and plugin_uninstall                *)
(*     (services/marketplace_service.rs, cmds/marketplace.rs,              *)
(*     cmds/plugins.rs).                                                   *)
(***************************************************************************)
EXTENDS Integers, Sequences, FiniteSets, TLC

VARIABLES
    input,        \* argument of the pure function under study (SpecMeta, SpecCat)
    output,       \* its result, "pending" before the call
    now,          \* monotonic clock (seconds), read by Instant::now / elapsed
    disk,         \* plugins/<id> directories: [exists, manifest]
    svcFile,      \* plugins/plugin_state.json, written by PluginService
    cmdFile,      \* plugin-state.json, written by cmds/plugins.rs
    stateCache,   \* PluginCache.state_map
    listCache,    \* PluginCache.plugin_list
    ret,          \* what the last handler did and returned
    lastFlag,     \* per store and id: flag of the last successful enable/disable
    lastList,     \* result of the previous list_plugins call
    bulk,         \* PluginService bulk operation in flight: its par_iter items
    locked,       \* plugins/<id> directories that fs::remove_dir_all cannot remove
    deps,         \* plugins/package.json, the dependency manifest
    npm,          \* plugins/node_modules/<package>: "absent" or "installed"
    stores,       \* plugin-settings.json, plugin-usage-stats.json,
                  \* plugin_abbreviations.json
    registry,     \* the npm registry: ranked packages and the total it reports
    service,      \* MARKETPLACE_SERVICE: the mutex poisoned by a panic under the
                  \* lock, and whether the build panics on arithmetic overflow
    tree,         \* directory trees of the paths a local install reads and writes
    calls         \* handler invocations in flight: position and locals of each

(* state outside the single-plugin lifecycle handlers *)
installVars == <<deps, npm, stores>>

marketVars == <<registry, service>>

fsVars == <<tree>>

callVars == <<calls>>

extVars == <<bulk, locked, installVars, marketVars, fsVars, callVars>>

vars == <<input, output, now, disk, svcFile, cmdFile, stateCache, listCache,
          ret, lastFlag, lastList, extVars>>

lifecycleVars == <<now, disk, svcFile, cmdFile, stateCache, listCache,
                   ret, lastFlag, lastList>>

---------------------------------------------------------------------------
(* Option<T> *)
None == [some |-> FALSE]
Some(x) == [some |-> TRUE, v |-> x]

(* serde_json::Value, as far as the validator distinguishes values.        *)
(* JAbsent stands for a key that is not in the object (Value::get -> None) *)
JAbsent == [t |-> "absent"]
JNull == [t |-> "null"]
JNum == [t |-> "num"]
JStr(s) == [t |-> "str", str |-> s]
JArr(a) == [t |-> "arr", arr |-> a]
JObj(o) == [t |-> "obj", obj |-> o]

as_str(j) == IF j.t = "str" THEN Some(j.str) ELSE None
as_array(j) == IF j.t = "arr" THEN Some(j.arr) ELSE None
as_object(j) == IF j.t = "obj" THEN Some(j.obj) ELSE None

(* Strings the validator inspects are sequences of characters. *)
LowerChars == <<"a","b","c","d","e","f","g","h","i","j","k","l","m",
                "n","o","p","q","r","s","t","u","v","w","x","y","z">>
UpperChars == <<"A","B","C","D","E","F","G","H","I","J","K","L","M",
                "N","O","P","Q","R","S","T","U","V","W","X","Y","Z">>

char_to_lowercase(c) ==
    IF \E i \in 1..Len(UpperChars) : UpperChars[i] = c
    THEN LowerChars[CHOOSE i \in 1..Len(UpperChars) : UpperChars[i] = c]
    ELSE c

char_to_uppercase(c) ==
    IF \E i \in 1..Len(LowerChars) : LowerChars[i] = c
    THEN UpperChars[CHOOSE i \in 1..Len(LowerChars) : LowerChars[i] = c]
    ELSE c

to_lowercase(s) == [i \in 1..Len(s) |-> char_to_lowercase(s[i])]

starts_with(s, p) == Len(s) >= Len(p) /\ SubSeq(s, 1, Len(p)) = p

RegistryPrefix == <<"@","e","t","o","o","l","s","-","p","l","u","g","i","n","/">>

(* arr.iter().filter_map(|v| v.as_str()).map(String::from).collect() *)
RECURSIVE filter_map_str(_)
filter_map_str(a) ==
    IF a = <<>> THEN <<>>
    ELSE IF Head(a).t = "str"
         THEN <<Head(a).str>> \o filter_map_str(Tail(a))
         ELSE filter_map_str(Tail(a))

---------------------------------------------------------------------------
(* PluginCategory and EtoolsMetadata::parse_category *)
CategoryNames == [
    Productivity |-> <<"p","r","o","d","u","c","t","i","v","i","t","y">>,
    Developer    |-> <<"d","e","v","e","l","o","p","e","r">>,
    Utilities    |-> <<"u","t","i","l","i","t","i","e","s">>,
    Search       |-> <<"s","e","a","r","c","h">>,
    Media        |-> <<"m","e","d","i","a">>,
    Integration  |-> <<"i","n","t","e","g","r","a","t","i","o","n">> ]

PluginCategory == DOMAIN CategoryNames

MetaErr(kind) == [ok |-> FALSE, err |-> kind]
MissingEtoolsField == MetaErr("MissingEtoolsField")
MissingRequiredField(f) == [ok |-> FALSE, err |-> "MissingRequiredField", field |-> f]
InvalidCategory(s) == [ok |-> FALSE, err |-> "InvalidCategory", category |-> s]
InvalidPackageName(n) == [ok |-> FALSE, err |-> "InvalidPackageName", name |-> n]
Ok(x) == [ok |-> TRUE, v |-> x]

parse_category_exact(s) ==
    IF \E c \in PluginCategory : CategoryNames[c] = s
    THEN Ok(CHOOSE c \in PluginCategory : CategoryNames[c] = s)
    ELSE InvalidCategory(s)

parse_category(s) ==
    LET l == to_lowercase(s) IN
    IF \E c \in PluginCategory : CategoryNames[c] = l
    THEN Ok(CHOOSE c \in PluginCategory : CategoryNames[c] = l)
    ELSE InvalidCategory(s)

---------------------------------------------------------------------------
(* serde_json::from_value::<Vec<PluginSetting>>: every element must be an  *)
(* object with string key, label and type and a default value; options and *)
(* description are Option fields.                                          *)
setting_ok(e) ==
    /\ e.t = "obj"
    /\ e.obj.key.t = "str"
    /\ e.obj.label.t = "str"
    /\ e.obj.type.t = "str"
    /\ e.obj.default.t # "absent"
    /\ e.obj.description.t \in {"absent", "null", "str"}

settings_from_value(arr) ==
    IF \A i \in 1..Len(arr) : setting_ok(arr[i])
    THEN Some([i \in 1..Len(arr) |-> arr[i].obj.key.str])
    ELSE None

(* Step 2 of from_package_json: the package name (lines 123-134) *)
package_name_lenient(pkg) ==
    LET package_name == as_str(pkg.name) IN
    IF ~package_name.some THEN InvalidPackageName(<<>>)
    ELSE IF ~starts_with(package_name.v, RegistryPrefix)
         THEN InvalidPackageName(package_name.v)
         ELSE Ok(package_name.v)

package_name_check(pkg) ==
    LET package_name == as_str(pkg.name) IN
    IF ~package_name.some THEN MissingRequiredField("name")
    ELSE IF ~starts_with(package_name.v, RegistryPrefix)
         THEN InvalidPackageName(package_name.v)
         ELSE Ok(package_name.v)

(* .get(f).and_then(as_str).ok_or(MissingRequiredField{f}) *)
required_str(meta, f) ==
    IF as_str(meta[f]).some THEN Ok(as_str(meta[f]).v)
    ELSE MissingRequiredField(f)

(* .get(f).and_then(as_array).map(filter_map).ok_or(MissingRequiredField{f}) *)
required_array_defaulted(meta, f) ==
    IF as_array(meta[f]).some THEN Ok(filter_map_str(as_array(meta[f]).v))
    ELSE Ok(<<>>)

required_array(meta, f) ==
    IF as_array(meta[f]).some THEN Ok(filter_map_str(as_array(meta[f]).v))
    ELSE MissingRequiredField(f)

(* description: etools.description, else the package's own description *)
optional_description(pkg, meta) ==
    IF as_str(meta.description).some THEN as_str(meta.description)
    ELSE as_str(pkg.description)

optional_str(meta, f) == as_str(meta[f])

optional_screenshots_strict(meta) ==
    IF as_array(meta.screenshots).some
       /\ \A i \in 1..Len(meta.screenshots.arr) : meta.screenshots.arr[i].t = "str"
    THEN Some(filter_map_str(as_array(meta.screenshots).v))
    ELSE None

optional_screenshots(meta) ==
    IF as_array(meta.screenshots).some
    THEN Some(filter_map_str(as_array(meta.screenshots).v))
    ELSE None

optional_settings(meta) ==
    IF as_array(meta.settings).some
    THEN settings_from_value(as_array(meta.settings).v)
    ELSE None

(* Steps 3-10 of from_package_json, in the order of the code *)
parse_fields(pkg, meta) ==
    LET id == required_str(meta, "id") IN
    IF ~id.ok THEN id ELSE
    LET display_name == required_str(meta, "displayName") IN
    IF ~display_name.ok THEN display_name ELSE
    LET category_str == required_str(meta, "category") IN
    IF ~category_str.ok THEN category_str ELSE
    LET category == parse_category(category_str.v) IN
    IF ~category.ok THEN category ELSE
    LET permissions == required_array(meta, "permissions") IN
    IF ~permissions.ok THEN permissions ELSE
    LET triggers == required_array(meta, "triggers") IN
    IF ~triggers.ok THEN triggers ELSE
    Ok([ id |-> id.v,
         display_name |-> display_name.v,
         description |-> optional_description(pkg, meta),
         category |-> category.v,
         icon |-> optional_str(meta, "icon"),
         homepage |-> optional_str(meta, "homepage"),
         screenshots |-> optional_screenshots(meta),
         permissions |-> permissions.v,
         triggers |-> triggers.v,
         settings |-> optional_settings(meta) ])

(* EtoolsMetadata::from_package_json: the etools object is looked up first *)
from_package_json_name_first(pkg) ==
    LET name == package_name_check(pkg) IN
    IF ~name.ok THEN name
    ELSE IF ~as_object(pkg.etools).some THEN MissingEtoolsField
    ELSE parse_fields(pkg, as_object(pkg.etools).v)

from_package_json(pkg) ==
    LET etools == as_object(pkg.etools) IN
    IF ~etools.some THEN MissingEtoolsField
    ELSE
    LET name == package_name_check(pkg) IN
    IF ~name.ok THEN name
    ELSE parse_fields(pkg, etools.v)

---------------------------------------------------------------------------
(* Inputs of the validator *)
Str_ex == <<"e","x">>
Str_developer == CategoryNames["Developer"]

NameGood == RegistryPrefix \o Str_ex
NameStrings == {
    NameGood,
    RegistryPrefix,
    Str_ex,
    SubSeq(RegistryPrefix, 1, Len(RegistryPrefix) - 1) \o Str_ex,
    [i \in 1..Len(RegistryPrefix) |-> char_to_uppercase(RegistryPrefix[i])] \o Str_ex,
    <<"x">> \o RegistryPrefix,
    <<>> }
NameValues == {JAbsent, JNull, JNum} \cup {JStr(n) : n \in NameStrings}

NoMetaValues == {JAbsent, JNull, JNum, JStr(Str_ex), JArr(<<>>)}

StrFieldValues == {JAbsent, JNull, JNum, JStr(Str_ex), JStr(<<>>)}
ArrFieldValues == {JAbsent, JStr(Str_ex), JArr(<<>>), JArr(<<JStr(Str_ex), JNum, JStr(<<"y">>)>>)}
CategoryValues == {
    JAbsent, JNum,
    JStr(Str_developer),
    JStr(<<"D">> \o Tail(Str_developer)),
    JStr(<<"d","e","v">>),
    JStr(<<>>) }

GoodSetting == JObj([key |-> JStr(<<"k">>), label |-> JStr(<<"l">>), type |-> JStr(<<"s">>),
                     default |-> JNull, description |-> JAbsent])
SettingNoKey == JObj([key |-> JAbsent, label |-> JStr(<<"l">>), type |-> JStr(<<"s">>),
                      default |-> JNum, description |-> JAbsent])
SettingBadType == JObj([key |-> JStr(<<"k">>), label |-> JStr(<<"l">>), type |-> JNum,
                        default |-> JNum, description |-> JStr(<<"d">>)])
SettingNoDefault == JObj([key |-> JStr(<<"k">>), label |-> JStr(<<"l">>), type |-> JStr(<<"s">>),
                          default |-> JAbsent, description |-> JNull])
SettingBadDescription == JObj([key |-> JStr(<<"k">>), label |-> JStr(<<"l">>), type |-> JStr(<<"s">>),
                          default |-> JNum, description |-> JNum])

ScreenshotValues == {
    JAbsent, JNull, JStr(Str_ex), JArr(<<>>),
    JArr(<<JStr(<<"a">>)>>),
    JArr(<<JStr(<<"a">>), JNum, JStr(<<"b">>)>>),
    JArr(<<JNum>>) }
SettingsValues == {
    JAbsent, JNull, JStr(Str_ex), JArr(<<>>),
    JArr(<<GoodSetting>>),
    JArr(<<GoodSetting, JNum>>),
    JArr(<<SettingNoKey>>),
    JArr(<<GoodSetting, SettingNoDefault>>),
    JArr(<<SettingBadType>>),
    JArr(<<SettingBadDescription, GoodSetting>>) }
OptStrValues == {JAbsent, JNull, JNum, JStr(<<"o">>)}

(* manifests that vary the name, the etools value and the required fields *)
ManifestsRequired ==
    [ name : NameValues,
      description : {JAbsent},
      etools : NoMetaValues \cup
               { JObj(e) : e \in [ id : StrFieldValues,
                                   displayName : StrFieldValues,
                                   category : CategoryValues,
                                   permissions : ArrFieldValues,
                                   triggers : ArrFieldValues,
                                   description : {JAbsent},
                                   icon : {JAbsent},
                                   homepage : {JAbsent},
                                   screenshots : {JAbsent},
                                   settings : {JAbsent} ] } ]

(* manifests that pass the required checks and vary the optional fields *)
ManifestsOptional ==
    [ name : {JStr(NameGood)},
      description : {JAbsent, JNum, JStr(<<"b">>)},
      etools : { JObj(e) : e \in [ id : {JStr(Str_ex)},
                                   displayName : {JStr(Str_ex)},
                                   category : {JStr(Str_developer)},
                                   permissions : {JArr(<<>>)},
                                   triggers : {JArr(<<JStr(Str_ex)>>)},
                                   description : OptStrValues,
                                   icon : OptStrValues,
                                   homepage : OptStrValues,
                                   screenshots : ScreenshotValues,
                                   settings : SettingsValues ] } ]

Manifests == ManifestsRequired \cup ManifestsOptional

(* every upper/lower-case spelling of a word *)
RECURSIVE CaseVariants(_)
CaseVariants(w) ==
    IF w = <<>> THEN {<<>>}
    ELSE { <<h>> \o t : h \in {Head(w), char_to_uppercase(Head(w))},
                        t \in CaseVariants(Tail(w)) }

OtherCategoryStrings == {
    <<>>, <<"d","e","v">>, <<"m","e","d","i","a","s">>, <<"m","e","d","i","a"," ">>,
    <<" ","m","e","d","i","a">>, <<"m","3","d","i","a">>, <<"t","o","o","l">>,
    <<"S","E","A","R","C">>, <<"m","e","d","i","a","-">> }

CategoryInputs ==
    UNION { CaseVariants(CategoryNames[c]) : c \in PluginCategory } \cup OtherCategoryStrings

---------------------------------------------------------------------------
Pending == [ok |-> FALSE, err |-> "pending"]
Done == output.ok \/ output.err # "pending"

NoRet == [op |-> "none"]

(* no bulk operation in flight *)
NoBulk == [active |-> FALSE, pc |-> <<>>]

(* a JSON file: missing, not parsable as a map, or a JSON map *)
EmptyMap == [x \in {} |-> TRUE]
FileAbsent == [st |-> "absent", map |-> EmptyMap]
FileMalformed == [st |-> "malformed", map |-> EmptyMap]
FileOf(m) == [st |-> "ok", map |-> m]

PluginIds == {"a", "b"}

(* npm package name of a plugin id: plugin_metadata.rs package_name *)
PackageOf(id) == "@etools-plugin/" \o id
Packages == { PackageOf(id) : id \in PluginIds }

NoStores == [settings |-> FileAbsent, usage |-> FileAbsent, abbreviations |-> FileAbsent]

(* no registry in reach, service mutex sound *)
NoRegistry == [hits |-> <<>>, total |-> 0]

(* no local install under study *)
NoTrees == <<>>

(* no handler invocation in flight *)
NoCalls == <<>>

ServiceOf(overflow_checks) == [poisoned |-> FALSE, overflow_checks |-> overflow_checks]

MarketIdle ==
    /\ registry = NoRegistry
    /\ service = ServiceOf(FALSE)

StoreIdle ==
    /\ tree = NoTrees
    /\ calls = NoCalls
    /\ bulk = NoBulk
    /\ locked = {}
    /\ deps = FileAbsent
    /\ npm = [p \in Packages |-> "absent"]
    /\ stores = NoStores

ExtIdle ==
    /\ MarketIdle
    /\ StoreIdle

CoreIdle ==
    /\ now = 0
    /\ disk = <<>>
    /\ svcFile = <<>>
    /\ cmdFile = <<>>
    /\ stateCache = None
    /\ listCache = None
    /\ ret = NoRet
    /\ lastFlag = <<>>
    /\ lastList = None

LifecycleIdle ==
    /\ ExtIdle
    /\ CoreIdle

(* the validator applied to one manifest *)
InitMeta ==
    /\ input \in Manifests
    /\ output = Pending
    /\ LifecycleIdle

FromPackageJson ==
    /\ ~Done
    /\ output' = from_package_json(input)
    /\ UNCHANGED <<extVars, input, lifecycleVars>>

NextMeta == FromPackageJson

SpecMeta == InitMeta /\ [][NextMeta]_vars

(* parse_category applied to one string *)
InitCat ==
    /\ input \in CategoryInputs
    /\ output = Pending
    /\ LifecycleIdle

ParseCategory ==
    /\ ~Done
    /\ output' = parse_category(input)
    /\ UNCHANGED <<extVars, input, lifecycleVars>>

NextCat == ParseCategory

SpecCat == InitCat /\ [][NextCat]_vars

---------------------------------------------------------------------------
(* Lifecycle service (services/plugin_service.rs) and the command-layer    *)
(* Enablement store (cmds/plugins.rs)                                      *)

ListTTL == 60
StateTTL == 30
TickSeconds == StateTTL
MaxTime == 90

(* HashMap<String, bool> *)
map_insert(m, k, b) == [x \in (DOMAIN m) \cup {k} |-> IF x = k THEN b ELSE m[x]]
map_get(m, k) == IF k \in DOMAIN m THEN Some(m[k]) ELSE None
map_is_empty(m) == DOMAIN m = {}

(* a plugin directory plugins/<id> and its manifest.json *)
DirAbsent == [exists |-> FALSE, manifest |-> "absent"]
DirEmpty == [exists |-> TRUE, manifest |-> "absent"]
DirStates ==
    {DirAbsent} \cup [exists : {TRUE}, manifest : {"absent", "unreadable", "invalid", "valid"}]

(* CacheEntry::new / CacheEntry::is_expired *)
CacheEntry(data, t) == Some([data |-> data, timestamp |-> t])

is_expired_at_ttl(entry, ttl, t) == t - entry.timestamp >= ttl

is_expired(entry, ttl, t) == t - entry.timestamp > ttl

(* PluginCache::get_plugins / get_state *)
cache_get(cache, ttl, t) ==
    IF cache.some /\ ~is_expired(cache.v, ttl, t) THEN Some(cache.v.data) ELSE None

(* PluginService::load_plugin: the placeholder record of a directory whose *)
(* manifest.json can be read                                               *)
load_plugin_ok(dir) == dir.manifest \in {"invalid", "valid"}

load_plugin(id) == [id |-> id, enabled |-> FALSE, health |-> "Unknown"]

(* the directory scan of list_plugins *)
scan_plugins(d) ==
    { load_plugin(id) : id \in {i \in PluginIds : d[i].exists /\ load_plugin_ok(d[i])} }

(* the state map enable_plugin / disable_plugin start from *)
svc_load_state_cache_only(cache, file, t) ==
    IF cache_get(cache, StateTTL, t).some THEN cache_get(cache, StateTTL, t).v ELSE EmptyMap

svc_load_state(cache, file, t) ==
    LET cached == IF cache_get(cache, StateTTL, t).some
                  THEN cache_get(cache, StateTTL, t).v ELSE EmptyMap
    IN IF map_is_empty(cached) /\ file.st = "ok" THEN file.map ELSE cached

(* the branches of check_plugin_health *)
health_status_warning_entry(dir, is_enabled) ==
    IF ~dir.exists THEN [status |-> "Error", errors |-> 1]
    ELSE IF ~is_enabled THEN [status |-> "Warning", errors |-> 1]
    ELSE IF dir.manifest = "valid" THEN [status |-> "Healthy", errors |-> 0]
    ELSE [status |-> "Error", errors |-> 1]

health_status(dir, is_enabled) ==
    IF ~dir.exists THEN [status |-> "Error", errors |-> 1]
    ELSE IF ~is_enabled THEN [status |-> "Warning", errors |-> 0]
    ELSE IF dir.manifest = "absent" THEN [status |-> "Error", errors |-> 1]
    ELSE IF dir.manifest = "valid" THEN [status |-> "Healthy", errors |-> 0]
    ELSE [status |-> "Error", errors |-> 1]

(* is_enabled of check_plugin_health: the enablement cache only *)
health_is_enabled(cache, id, t) ==
    IF cache_get(cache, StateTTL, t).some /\ map_get(cache_get(cache, StateTTL, t).v, id).some
    THEN map_get(cache_get(cache, StateTTL, t).v, id).v
    ELSE FALSE

(* check_plugin_health ends by create_dir_all(plugins/<id>) and writing health.json *)
health_dir_after(dir) == IF dir.exists THEN dir ELSE DirEmpty

StoreMap(file) == IF file.st = "ok" THEN file.map ELSE EmptyMap
FlagName(b) == IF b THEN "on" ELSE "off"

InitDisks ==
    { d \in [PluginIds -> DirStates] : d["b"] = [exists |-> TRUE, manifest |-> "valid"] }

Init ==
    /\ input = <<>>
    /\ output = Pending
    /\ now = 0
    /\ disk \in InitDisks
    /\ svcFile \in {FileAbsent, FileMalformed}
    /\ cmdFile \in {FileAbsent, FileMalformed}
    /\ stateCache = None
    /\ listCache = None
    /\ ret = NoRet
    /\ lastFlag = [st \in {"svc", "cmd"} |-> [i \in PluginIds |-> "none"]]
    /\ lastList = None
    /\ ExtIdle

(* time passes *)
Tick ==
    /\ now + TickSeconds <= MaxTime
    /\ now' = now + TickSeconds
    /\ UNCHANGED <<extVars, input, output, disk, svcFile, cmdFile, stateCache, listCache,
                   ret, lastFlag, lastList>>

(* PluginService::list_plugins *)
ListPluginsAs(opname, cache) ==
    LET cached == cache_get(cache, ListTTL, now)
        plugins == IF cached.some THEN cached.v ELSE scan_plugins(disk)
    IN /\ listCache' = IF cached.some THEN cache ELSE CacheEntry(plugins, now)
       /\ ret' = [op |-> opname, ok |-> TRUE, scanned |-> ~cached.some, result |-> plugins]
       /\ lastList' = Some(plugins)
       /\ UNCHANGED <<extVars, input, output, now, disk, svcFile, cmdFile, stateCache, lastFlag>>

ListPlugins == ListPluginsAs("list_plugins", listCache)

(* PluginService::refresh_plugins: invalidate, then list_plugins *)
RefreshPlugins == ListPluginsAs("refresh_plugins", None)

(* PluginService::enable_plugin (flag = TRUE) / disable_plugin (flag = FALSE) *)
SetEnabled(id, flag) ==
    LET state == map_insert(svc_load_state(stateCache, svcFile, now), id, flag)
    IN /\ svcFile' = FileOf(state)
       /\ stateCache' = CacheEntry(state, now)
       /\ disk' = [disk EXCEPT ![id] = health_dir_after(disk[id])]
       /\ listCache' = None
       /\ ret' = [op |-> IF flag THEN "enable_plugin" ELSE "disable_plugin",
                  ok |-> TRUE, id |-> id, flag |-> flag]
       /\ lastFlag' = [lastFlag EXCEPT !["svc"][id] = FlagName(flag)]
       /\ UNCHANGED <<extVars, input, output, now, cmdFile, lastList>>

EnablePlugin == \E id \in PluginIds : SetEnabled(id, TRUE)

DisablePlugin == \E id \in PluginIds : SetEnabled(id, FALSE)

(* PluginService::check_plugin_health *)
CheckPluginHealthOf(id) ==
    LET health == health_status(disk[id], health_is_enabled(stateCache, id, now))
    IN /\ disk' = [disk EXCEPT ![id] = health_dir_after(disk[id])]
       /\ ret' = [op |-> "check_plugin_health", ok |-> TRUE, id |-> id,
                  status |-> health.status, errors |-> health.errors,
                  last_checked |-> now]
       /\ UNCHANGED <<extVars, input, output, now, svcFile, cmdFile, stateCache, listCache,
                      lastFlag, lastList>>

CheckPluginHealth == \E id \in PluginIds : CheckPluginHealthOf(id)

(* cmds/plugins.rs save_plugin_enabled_state: load, insert, save *)
SavePluginEnabledStateOf(id, flag) ==
    IF cmdFile.st = "malformed"
    THEN /\ ret' = [op |-> "save_plugin_enabled_state", ok |-> FALSE, id |-> id,
                    flag |-> flag]
         /\ UNCHANGED <<extVars, input, output, now, disk, svcFile, cmdFile, stateCache,
                        listCache, lastFlag, lastList>>
    ELSE /\ cmdFile' = FileOf(map_insert(StoreMap(cmdFile), id, flag))
         /\ ret' = [op |-> "save_plugin_enabled_state", ok |-> TRUE, id |-> id,
                    flag |-> flag]
         /\ lastFlag' = [lastFlag EXCEPT !["cmd"][id] = FlagName(flag)]
         /\ UNCHANGED <<extVars, input, output, now, disk, svcFile, stateCache, listCache,
                        lastList>>

SavePluginEnabledState ==
    \E id \in PluginIds, flag \in BOOLEAN : SavePluginEnabledStateOf(id, flag)

(* cmds/plugins.rs get_plugin_enabled_state *)
GetPluginEnabledState ==
    \E id \in PluginIds :
        /\ ret' = IF cmdFile.st = "malformed"
                  THEN [op |-> "get_plugin_enabled_state", ok |-> FALSE, id |-> id]
                  ELSE [op |-> "get_plugin_enabled_state", ok |-> TRUE, id |-> id,
                        value |-> IF map_get(StoreMap(cmdFile), id).some
                                  THEN map_get(StoreMap(cmdFile), id).v ELSE TRUE]
        /\ UNCHANGED <<extVars, input, output, now, disk, svcFile, cmdFile, stateCache, listCache,
                       lastFlag, lastList>>

(* cmds/plugins.rs uninstall_plugin: remove plugins/<id> when it exists *)
uninstall_plugin(d, lk, id) ==
    IF d[id].exists /\ id \in lk
    THEN [ok |-> FALSE, err |-> "Failed to remove plugin", disk |-> d]
    ELSE [ok |-> TRUE, err |-> "", disk |-> [d EXCEPT ![id] = DirAbsent]]

UninstallPlugin ==
    \E id \in PluginIds :
        /\ disk' = uninstall_plugin(disk, locked, id).disk
        /\ ret' = [op |-> "uninstall_plugin", ok |-> uninstall_plugin(disk, locked, id).ok,
                   id |-> id]
        /\ UNCHANGED <<extVars, input, output, now, svcFile, cmdFile, stateCache, listCache,
                       lastFlag, lastList>>

(* the lifecycle service over a changing plugin directory *)
Next ==
    \/ Tick
    \/ ListPlugins
    \/ RefreshPlugins
    \/ EnablePlugin
    \/ DisablePlugin
    \/ CheckPluginHealth
    \/ UninstallPlugin

Spec == Init /\ [][Next]_vars

(* both writers of enablement flags, over installed plugins *)
InitEnable ==
    /\ Init
    /\ \A i \in PluginIds : disk[i] = [exists |-> TRUE, manifest |-> "valid"]

NextEnable ==
    \/ Tick
    \/ EnablePlugin
    \/ DisablePlugin
    \/ SavePluginEnabledState
    \/ GetPluginEnabledState
    \/ ListPlugins

SpecEnable == InitEnable /\ [][NextEnable]_vars

---------------------------------------------------------------------------
(* Bulk operations: PluginService::bulk_enable_plugins / bulk_disable_plugins *)
(* (rayon par_iter over the ids) and the command-layer bulk_uninstall_plugins *)
(* (a sequential loop)                                                        *)

MaxBulkLen == 3

SeqsUpTo(S, n) == UNION { [1..k -> S] : k \in 0..n }

(* id lists without repetition: the lists a parallel bulk call may be given *)
DistinctSeqs(S) ==
    { ids \in SeqsUpTo(S, Cardinality(S)) :
        \A i, j \in 1..Len(ids) : ids[i] = ids[j] => i = j }

(* models/plugin.rs BulkOperationResult, built from a Result<_, String> *)
BulkOperationResult_no_message(id, r) ==
    [plugin_id |-> id, success |-> r.ok, error |-> None]

BulkOperationResult(id, r) ==
    [plugin_id |-> id, success |-> r.ok,
     error |-> IF r.ok THEN None ELSE Some(r.err)]

(* the status classification shared by all bulk handlers *)
bulk_status_strict(results) ==
    IF \A i \in 1..Len(results) : results[i].success THEN "Completed"
    ELSE "Failed"

bulk_status(results) ==
    IF \A i \in 1..Len(results) : results[i].success THEN "Completed"
    ELSE IF \E i \in 1..Len(results) : results[i].success THEN "PartialFailure"
    ELSE "Failed"

BulkOperation(layer, type, ids, results, started, t) ==
    [op |-> "bulk", ok |-> TRUE, layer |-> layer, operation_type |-> type,
     target_plugin_ids |-> ids, status |-> bulk_status(results), results |-> results,
     started_at |-> started, completed_at |-> Some(t)]

(* bulk_enable_plugins / bulk_disable_plugins up to par_iter: one item per id *)
BulkStart(type) ==
    \E ids \in DistinctSeqs(PluginIds) :
        /\ ~bulk.active
        /\ bulk' = [active |-> TRUE, operation_type |-> type, ids |-> ids,
                    started_at |-> now,
                    pc |-> [i \in 1..Len(ids) |-> "get_state"],
                    state |-> [i \in 1..Len(ids) |-> EmptyMap],
                    err |-> [i \in 1..Len(ids) |-> None],
                    results |-> <<>>]
        /\ ret' = NoRet
        /\ UNCHANGED <<input, output, now, disk, svcFile, cmdFile, stateCache, listCache,
                       lastFlag, lastList, locked,
                       installVars, marketVars, fsVars, callVars>>

BulkEnableStart == BulkStart("Enable")

BulkDisableStart == BulkStart("Disable")

ItemAt(i, pc) == bulk.active /\ i \in 1..Len(bulk.ids) /\ bulk.pc[i] = pc

ItemFlag == bulk.operation_type = "Enable"

(* enable_plugin / disable_plugin inside an item: self.cache.get_state() *)
ItemGetState ==
    \E i \in DOMAIN bulk.pc :
        /\ ItemAt(i, "get_state")
        /\ LET cached == cache_get(stateCache, StateTTL, now)
               state == IF cached.some THEN cached.v ELSE EmptyMap
           IN bulk' = [bulk EXCEPT !.state[i] = state,
                                   !.pc[i] = IF map_is_empty(state) THEN "read_file"
                                             ELSE "write_file"]
        /\ UNCHANGED <<input, output, now, disk, svcFile, cmdFile, stateCache, listCache,
                       ret, lastFlag, lastList, locked,
                       installVars, marketVars, fsVars, callVars>>

(* ... on a cache miss: read plugins/plugin_state.json when it exists *)
ItemReadFile ==
    \E i \in DOMAIN bulk.pc :
        /\ ItemAt(i, "read_file")
        /\ bulk' = [bulk EXCEPT !.state[i] = StoreMap(svcFile), !.pc[i] = "write_file"]
        /\ UNCHANGED <<input, output, now, disk, svcFile, cmdFile, stateCache, listCache,
                       ret, lastFlag, lastList, locked,
                       installVars, marketVars, fsVars, callVars>>

(* ... state.insert(id, flag); fs::write(state_file), which may fail *)
ItemWriteFile ==
    \E i \in DOMAIN bulk.pc, io_ok \in BOOLEAN :
        /\ ItemAt(i, "write_file")
        /\ LET state == map_insert(bulk.state[i], bulk.ids[i], ItemFlag)
           IN IF io_ok
              THEN /\ svcFile' = FileOf(state)
                   /\ bulk' = [bulk EXCEPT !.state[i] = state, !.pc[i] = "set_state"]
              ELSE /\ svcFile' = svcFile
                   /\ bulk' = [bulk EXCEPT !.err[i] = Some("Failed to write state file"),
                                           !.pc[i] = "push"]
        /\ UNCHANGED <<input, output, now, disk, cmdFile, stateCache, listCache,
                       ret, lastFlag, lastList, locked,
                       installVars, marketVars, fsVars, callVars>>

(* ... self.cache.set_state(state) *)
ItemSetState ==
    \E i \in DOMAIN bulk.pc :
        /\ ItemAt(i, "set_state")
        /\ stateCache' = CacheEntry(bulk.state[i], now)
        /\ bulk' = [bulk EXCEPT !.pc[i] = "health"]
        /\ UNCHANGED <<input, output, now, disk, svcFile, cmdFile, listCache,
                       ret, lastFlag, lastList, locked,
                       installVars, marketVars, fsVars, callVars>>

(* ... let _ = self.check_plugin_health(id) *)
ItemHealth ==
    \E i \in DOMAIN bulk.pc :
        /\ ItemAt(i, "health")
        /\ disk' = [disk EXCEPT ![bulk.ids[i]] = health_dir_after(disk[bulk.ids[i]])]
        /\ bulk' = [bulk EXCEPT !.pc[i] = "invalidate"]
        /\ UNCHANGED <<input, output, now, svcFile, cmdFile, stateCache, listCache,
                       ret, lastFlag, lastList, locked,
                       installVars, marketVars, fsVars, callVars>>

(* ... self.cache.invalidate_plugins(); Ok(()) *)
ItemInvalidate ==
    \E i \in DOMAIN bulk.pc :
        /\ ItemAt(i, "invalidate")
        /\ listCache' = None
        /\ bulk' = [bulk EXCEPT !.pc[i] = "push"]
        /\ UNCHANGED <<input, output, now, disk, svcFile, cmdFile, stateCache,
                       ret, lastFlag, lastList, locked,
                       installVars, marketVars, fsVars, callVars>>

(* results.lock().unwrap().push(result) *)
push_result_overwrite(results, r) == <<r>>

push_result(results, r) == Append(results, r)

ItemPush ==
    \E i \in DOMAIN bulk.pc :
        /\ ItemAt(i, "push")
        /\ LET r == IF bulk.err[i].some THEN [ok |-> FALSE, err |-> bulk.err[i].v]
                    ELSE [ok |-> TRUE, err |-> ""]
           IN bulk' = [bulk EXCEPT
                          !.results = push_result(@, BulkOperationResult(bulk.ids[i], r)),
                          !.pc[i] = "done"]
        /\ UNCHANGED <<input, output, now, disk, svcFile, cmdFile, stateCache, listCache,
                       ret, lastFlag, lastList, locked,
                       installVars, marketVars, fsVars, callVars>>

(* after par_iter has joined: classify and return the BulkOperation *)
BulkFinish ==
    /\ bulk.active
    /\ \A i \in DOMAIN bulk.pc : bulk.pc[i] = "done"
    /\ ret' = BulkOperation("svc", bulk.operation_type, bulk.ids, bulk.results,
                            bulk.started_at, now)
    /\ bulk' = NoBulk
    /\ UNCHANGED <<input, output, now, disk, svcFile, cmdFile, stateCache, listCache,
                   lastFlag, lastList, locked,
                       installVars, marketVars, fsVars, callVars>>

(* cmds/plugins.rs bulk_uninstall_plugins: uninstall_plugin for each id in turn *)
RECURSIVE bulk_uninstall_loop(_, _, _, _)
bulk_uninstall_until_failure(d, lk, ids, results) ==
    IF ids = <<>> THEN [disk |-> d, results |-> results]
    ELSE LET r == uninstall_plugin(d, lk, Head(ids))
         IN IF r.ok
            THEN bulk_uninstall_loop(r.disk, lk, Tail(ids),
                                     Append(results, BulkOperationResult(Head(ids), r)))
            ELSE [disk |-> d, results |-> Append(results, BulkOperationResult(Head(ids), r))]

bulk_uninstall_loop(d, lk, ids, results) ==
    IF ids = <<>> THEN [disk |-> d, results |-> results]
    ELSE LET r == uninstall_plugin(d, lk, Head(ids))
         IN bulk_uninstall_loop(r.disk, lk, Tail(ids),
                                Append(results, BulkOperationResult(Head(ids), r)))

BulkUninstallPlugins ==
    /\ ~bulk.active
    /\ \E ids \in SeqsUpTo(PluginIds, MaxBulkLen) :
           LET done == bulk_uninstall_loop(disk, locked, ids, <<>>)
           IN /\ disk' = done.disk
              /\ ret' = BulkOperation("cmd", "Uninstall", ids, done.results, now, now)
              /\ UNCHANGED <<extVars, input, output, now, svcFile, cmdFile, stateCache,
                             listCache, lastFlag, lastList>>

(* a fresh service over plugin directories that are absent or intact *)
InitBulk ==
    /\ MarketIdle
    /\ input = <<>>
    /\ output = Pending
    /\ now = 0
    /\ disk \in [PluginIds -> {DirAbsent, [exists |-> TRUE, manifest |-> "valid"]}]
    /\ svcFile = FileAbsent
    /\ cmdFile = FileAbsent
    /\ stateCache = None
    /\ listCache = None
    /\ ret = NoRet
    /\ lastFlag = [st \in {"svc", "cmd"} |-> [i \in PluginIds |-> "none"]]
    /\ lastList = None
    /\ tree = NoTrees
    /\ calls = NoCalls
    /\ bulk = NoBulk
    /\ locked \in SUBSET PluginIds
    /\ deps = FileAbsent
    /\ npm = [p \in Packages |-> "absent"]
    /\ stores = NoStores

NextBulk ==
    \/ BulkEnableStart
    \/ BulkDisableStart
    \/ ItemGetState
    \/ ItemReadFile
    \/ ItemWriteFile
    \/ ItemSetState
    \/ ItemHealth
    \/ ItemInvalidate
    \/ ItemPush
    \/ BulkFinish
    \/ BulkUninstallPlugins

SpecBulk == InitBulk /\ [][NextBulk]_vars

---------------------------------------------------------------------------
(* Marketplace install / uninstall (services/marketplace_service.rs,       *)
(* cmds/marketplace.rs), plugin_uninstall and the settings and             *)
(* abbreviation stores (cmds/plugins.rs)                                   *)

(* version specifiers a dependency can carry: "latest" as written by       *)
(* install_plugin, or the range the package manager saves on install       *)
VersionSpecs == {"latest", "^1.0.0"}

map_remove(m, k) == [x \in (DOMAIN m) \ {k} |-> m[x]]

(* the fields of plugins/package.json besides "dependencies", as the       *)
(* handlers write them when they create the file                           *)
DefaultFields ==
    [name |-> "etools-plugins", version |-> "1.0.0",
     description |-> "Installed plugins registry"]

EmptyManifest == [st |-> "ok", map |-> EmptyMap, fields |-> DefaultFields]

(* package_data["dependencies"] replaced, the document written back *)
fresh_manifest(d, m) == [st |-> "ok", map |-> m, fields |-> DefaultFields]

with_dependencies(d, m) == [d EXCEPT !.map = m]

(* cmds/plugins.rs get_plugin_enabled_state(..).unwrap_or(true) *)
enabled_or_default(file, key) ==
    IF file.st = "ok" /\ key \in DOMAIN file.map THEN file.map[key] ELSE TRUE

InstallErr(d, n, msg) == [ok |-> FALSE, err |-> msg, deps |-> d, npm |-> n, plugin |-> None]

(* MarketplaceService::install_plugin; npm_ok is the exit status of        *)
(* `npm install <package>`, saved the specifier npm leaves in package.json *)
install_plugin_rewrite(d, n, st, pkg, npm_ok, saved) ==
    LET created == IF d.st = "absent" THEN EmptyManifest ELSE d
    IN IF created.st = "malformed"
       THEN InstallErr(created, n, "Failed to parse package.json")
       ELSE IF ~npm_ok
       THEN InstallErr(with_dependencies(created, map_insert(created.map, pkg, "latest")), n,
                       "npm install failed")
       ELSE [ok |-> TRUE, err |-> "",
             deps |-> with_dependencies(created, map_insert(created.map, pkg, saved)),
             npm |-> [n EXCEPT ![pkg] = "installed"],
             plugin |-> Some([id |-> pkg, enabled |-> enabled_or_default(st, pkg)])]

install_plugin(d, n, st, pkg, npm_ok, saved) ==
    LET created == IF d.st = "absent" THEN EmptyManifest ELSE d
    IN IF created.st = "malformed"
       THEN InstallErr(created, n, "Failed to parse package.json")
       ELSE IF pkg \in DOMAIN created.map
       THEN InstallErr(created, n, "already installed")
       ELSE IF ~npm_ok
       THEN InstallErr(with_dependencies(created, map_insert(created.map, pkg, "latest")), n,
                       "npm install failed")
       ELSE [ok |-> TRUE, err |-> "",
             deps |-> with_dependencies(created, map_insert(created.map, pkg, saved)),
             npm |-> [n EXCEPT ![pkg] = "installed"],
             plugin |-> Some([id |-> pkg, enabled |-> enabled_or_default(st, pkg)])]

(* cmds/marketplace.rs marketplace_install: install_plugin(..)?, then       *)
(* dependencies.entry(package).or_insert("latest") and write back          *)
marketplace_install_tolerant(d, n, st, pkg, npm_ok, saved) ==
    LET r == install_plugin(d, n, st, pkg, npm_ok, saved)
    IN IF r.err = "already installed"
       THEN [r EXCEPT !.ok = TRUE,
                      !.plugin = Some([id |-> pkg, enabled |-> enabled_or_default(st, pkg)])]
       ELSE r

marketplace_install(d, n, st, pkg, npm_ok, saved) ==
    LET r == install_plugin(d, n, st, pkg, npm_ok, saved)
    IN IF ~r.ok THEN r
       ELSE [r EXCEPT !.deps = with_dependencies(r.deps,
                                   IF pkg \in DOMAIN r.deps.map THEN r.deps.map
                                   ELSE map_insert(r.deps.map, pkg, "latest"))]

MarketplaceInstallOf(pkg) ==
    \E npm_ok \in BOOLEAN, saved \in VersionSpecs :
        LET r == marketplace_install(deps, npm, cmdFile, pkg, npm_ok, saved)
        IN /\ deps' = r.deps
           /\ npm' = r.npm
           /\ ret' = [op |-> "marketplace_install", ok |-> r.ok, err |-> r.err,
                      package |-> pkg, plugin |-> r.plugin]
           /\ UNCHANGED <<input, output, now, disk, svcFile, cmdFile, stateCache,
                          listCache, lastFlag, lastList, bulk, locked, stores, marketVars, fsVars, callVars>>

MarketplaceInstall == \E pkg \in Packages : MarketplaceInstallOf(pkg)

(* cmds/plugins.rs remove_plugin_state: load, remove, save *)
remove_plugin_state_strict(file, key) ==
    IF file.st = "ok" /\ key \in DOMAIN file.map
    THEN [ok |-> TRUE, file |-> FileOf(map_remove(file.map, key))]
    ELSE [ok |-> FALSE, file |-> file]

remove_plugin_state(file, key) ==
    IF file.st = "malformed"
    THEN [ok |-> FALSE, file |-> file]
    ELSE [ok |-> TRUE, file |-> FileOf(map_remove(StoreMap(file), key))]

(* MarketplaceService::uninstall_plugin followed by the second removal of  *)
(* cmds/marketplace.rs marketplace_uninstall                               *)
MarketplaceUninstall ==
    \E pkg \in Packages :
        IF deps.st # "ok"
        THEN /\ ret' = [op |-> "marketplace_uninstall", ok |-> FALSE, package |-> pkg,
                        err |-> IF deps.st = "absent" THEN "Failed to read package.json"
                                ELSE "Failed to parse package.json"]
             /\ UNCHANGED <<extVars, input, output, now, disk, svcFile, cmdFile,
                            stateCache, listCache, lastFlag, lastList>>
        ELSE /\ deps' = with_dependencies(deps, map_remove(deps.map, pkg))
             /\ npm' = [npm EXCEPT ![pkg] = "absent"]
             /\ cmdFile' = remove_plugin_state(cmdFile, pkg).file
             /\ ret' = [op |-> "marketplace_uninstall", ok |-> TRUE, package |-> pkg,
                        err |-> ""]
             /\ UNCHANGED <<input, output, now, disk, svcFile, stateCache, listCache,
                            lastFlag, lastList, bulk, locked, stores, marketVars, fsVars, callVars>>

(* what `npm` writes to stderr when it fails *)
StderrTexts == {"E404", "EACCES"}

NpmOutput(success, stderr) == [success |-> success, stderr |-> stderr]

(* cmds/plugins.rs plugin_uninstall; out is the Output of the one           *)
(* `npm uninstall <package>` subprocess the handler runs                   *)
plugin_uninstall_state_first(d, n, st, id, out) ==
    LET removed == [n EXCEPT ![PackageOf(id)] = "absent"]
        state == remove_plugin_state(st, id)
    IN IF ~state.ok
       THEN [ok |-> FALSE, err |-> "Failed to parse plugin state", deps |-> d,
             npm |-> n, state |-> st, npm_runs |-> 0]
       ELSE IF ~out.success
       THEN [ok |-> FALSE, err |-> "npm uninstall failed: " \o out.stderr, deps |-> d,
             npm |-> n, state |-> state.file, npm_runs |-> 1]
       ELSE IF d.st = "malformed"
       THEN [ok |-> FALSE, err |-> "Failed to parse package.json", deps |-> d,
             npm |-> removed, state |-> state.file, npm_runs |-> 1]
       ELSE [ok |-> TRUE, err |-> "",
             deps |-> IF d.st = "absent" THEN d
                      ELSE with_dependencies(d, map_remove(d.map, PackageOf(id))),
             npm |-> removed, state |-> state.file, npm_runs |-> 1]

plugin_uninstall(d, n, st, id, out) ==
    LET removed == [n EXCEPT ![PackageOf(id)] = "absent"]
        state == remove_plugin_state(st, id)
    IN IF ~out.success
       THEN [ok |-> FALSE, err |-> "npm uninstall failed: " \o out.stderr, deps |-> d,
             npm |-> n, state |-> st, npm_runs |-> 1]
       ELSE IF ~state.ok
       THEN [ok |-> FALSE, err |-> "Failed to parse plugin state", deps |-> d,
             npm |-> removed, state |-> st, npm_runs |-> 1]
       ELSE IF d.st = "malformed"
       THEN [ok |-> FALSE, err |-> "Failed to parse package.json", deps |-> d,
             npm |-> removed, state |-> state.file, npm_runs |-> 1]
       ELSE [ok |-> TRUE, err |-> "",
             deps |-> IF d.st = "absent" THEN d
                      ELSE with_dependencies(d, map_remove(d.map, PackageOf(id))),
             npm |-> removed, state |-> state.file, npm_runs |-> 1]

NpmOutputs == {NpmOutput(TRUE, "")} \cup {NpmOutput(FALSE, e) : e \in StderrTexts}

PluginUninstallOf(id) ==
    \E out \in NpmOutputs :
        LET r == plugin_uninstall(deps, npm, cmdFile, id, out)
        IN /\ deps' = r.deps
           /\ npm' = r.npm
           /\ cmdFile' = r.state
           /\ ret' = [op |-> "plugin_uninstall", ok |-> r.ok, err |-> r.err, id |-> id,
                      npm_output |-> out, npm_runs |-> r.npm_runs]
           /\ UNCHANGED <<input, output, now, disk, svcFile, stateCache, listCache,
                          lastFlag, lastList, bulk, locked, stores, marketVars, fsVars, callVars>>

PluginUninstall == \E id \in PluginIds : PluginUninstallOf(id)

(* cmds/plugins.rs set_plugin_abbreviation: load the store (`?` on a file  *)
(* that does not parse), add to the entry of the id, save                  *)
SetStoreEntry(store) ==
    \E id \in PluginIds :
        IF stores[store].st = "malformed"
        THEN /\ ret' = [op |-> "set_" \o store, ok |-> FALSE, id |-> id]
             /\ UNCHANGED <<input, output, now, disk, svcFile, cmdFile, stateCache,
                            listCache, lastFlag, lastList, extVars>>
        ELSE /\ stores' = [stores EXCEPT ![store] = FileOf(map_insert(StoreMap(@), id, TRUE))]
             /\ ret' = [op |-> "set_" \o store, ok |-> TRUE, id |-> id]
             /\ UNCHANGED <<input, output, now, disk, svcFile, cmdFile, stateCache,
                            listCache, lastFlag, lastList, bulk, locked, deps, npm, marketVars, fsVars, callVars>>

SettingKeys == {"theme", "size"}

SettingValues == {JNull, JStr("dark"), JStr("light")}

(* set_plugin_setting with the entry of the plugin replaced by the one key *)
set_plugin_setting_replace(file, plugin_id, key, value) ==
    IF file.st = "malformed"
    THEN [ok |-> FALSE, file |-> file]
    ELSE [ok |-> TRUE,
          file |-> FileOf(map_insert(StoreMap(file), plugin_id,
                                     map_insert(EmptyMap, key, value)))]

(* cmds/plugins.rs set_plugin_setting: load plugin-settings.json (`?` on a *)
(* file that does not parse), entry(plugin_id).or_insert_with(new map),    *)
(* insert(key, value), save                                                *)
set_plugin_setting(file, plugin_id, key, value) ==
    IF file.st = "malformed"
    THEN [ok |-> FALSE, file |-> file]
    ELSE LET all_settings == StoreMap(file)
             plugin_settings == IF plugin_id \in DOMAIN all_settings
                                THEN all_settings[plugin_id]
                                ELSE EmptyMap
         IN [ok |-> TRUE,
             file |-> FileOf(map_insert(all_settings, plugin_id,
                                        map_insert(plugin_settings, key, value)))]

(* cmds/plugins.rs get_plugin_setting: the stored value, JSON null when    *)
(* the plugin or the key has no entry                                      *)
get_plugin_setting(file, plugin_id, key) ==
    IF file.st = "malformed"
    THEN [ok |-> FALSE, value |-> JAbsent]
    ELSE LET all_settings == StoreMap(file)
         IN IF plugin_id \in DOMAIN all_settings /\ key \in DOMAIN all_settings[plugin_id]
            THEN [ok |-> TRUE, value |-> all_settings[plugin_id][key]]
            ELSE [ok |-> TRUE, value |-> JNull]

SetPluginSettingOf(keys, values) ==
    \E plugin_id \in PluginIds, key \in keys, value \in values :
        LET r == set_plugin_setting(stores.settings, plugin_id, key, value)
        IN /\ stores' = [stores EXCEPT !.settings = r.file]
           /\ ret' = [op |-> "set_plugin_setting", ok |-> r.ok, id |-> plugin_id,
                      key |-> key, value |-> value]
           /\ UNCHANGED <<input, output, now, disk, svcFile, cmdFile, stateCache,
                          listCache, lastFlag, lastList, bulk, locked, deps, npm, marketVars, fsVars, callVars>>

SetPluginSetting == SetPluginSettingOf(SettingKeys, SettingValues)

GetPluginSetting ==
    \E plugin_id \in PluginIds, key \in SettingKeys :
        LET r == get_plugin_setting(stores.settings, plugin_id, key)
        IN /\ ret' = [op |-> "get_plugin_setting", ok |-> r.ok, id |-> plugin_id,
                      key |-> key, value |-> r.value]
           /\ UNCHANGED <<input, output, now, disk, svcFile, cmdFile, stateCache,
                          listCache, lastFlag, lastList, extVars>>

SetPluginAbbreviation == SetStoreEntry("abbreviations")

(* the command layer over an empty or unreadable installation *)
InitInstall ==
    /\ MarketIdle
    /\ input = <<>>
    /\ output = Pending
    /\ now = 0
    /\ disk = [i \in PluginIds |-> DirAbsent]
    /\ svcFile = FileAbsent
    /\ cmdFile \in {FileAbsent, FileMalformed}
    /\ stateCache = None
    /\ listCache = None
    /\ ret = NoRet
    /\ lastFlag = [st \in {"svc", "cmd"} |-> [i \in PluginIds |-> "none"]]
    /\ lastList = None
    /\ tree = NoTrees
    /\ calls = NoCalls
    /\ bulk = NoBulk
    /\ locked = {}
    /\ deps \in {FileAbsent, FileMalformed}
    /\ npm = [p \in Packages |-> "absent"]
    /\ stores \in {NoStores, [NoStores EXCEPT !.settings = FileMalformed]}

NextInstall ==
    \/ MarketplaceInstall
    \/ MarketplaceUninstall
    \/ PluginUninstall
    \/ SavePluginEnabledState
    \/ SetPluginSettingOf({"theme"}, {JStr("dark")})
    \/ SetPluginAbbreviation

SpecInstall == InitInstall /\ [][NextInstall]_vars

(* the Settings store over a missing or an unreadable plugin-settings.json *)
InitSettings ==
    /\ MarketIdle
    /\ input = <<>>
    /\ output = Pending
    /\ now = 0
    /\ disk = [i \in PluginIds |-> DirAbsent]
    /\ svcFile = FileAbsent
    /\ cmdFile = FileAbsent
    /\ stateCache = None
    /\ listCache = None
    /\ ret = NoRet
    /\ lastFlag = [st \in {"svc", "cmd"} |-> [i \in PluginIds |-> "none"]]
    /\ lastList = None
    /\ tree = NoTrees
    /\ calls = NoCalls
    /\ bulk = NoBulk
    /\ locked = {}
    /\ deps = FileAbsent
    /\ npm = [p \in Packages |-> "absent"]
    /\ stores \in {NoStores, [NoStores EXCEPT !.settings = FileMalformed]}

NextSettings ==
    \/ SetPluginSetting
    \/ GetPluginSetting

SpecSettings == InitSettings /\ [][NextSettings]_vars

(* a dependency manifest that somebody else wrote: fields of its own and   *)
(* a dependency that is not a plugin of this model                         *)
ForeignManifest ==
    [st |-> "ok", map |-> [k \in {"left-pad"} |-> "^1.3.0"],
     fields |-> [name |-> "my-plugins", version |-> "2.0.0", description |-> ""]]

(* the install and uninstall commands over a missing or a foreign manifest *)
InitManifest ==
    /\ MarketIdle
    /\ input = <<>>
    /\ output = Pending
    /\ now = 0
    /\ disk = [i \in PluginIds |-> DirAbsent]
    /\ svcFile = FileAbsent
    /\ cmdFile = FileAbsent
    /\ stateCache = None
    /\ listCache = None
    /\ ret = NoRet
    /\ lastFlag = [st \in {"svc", "cmd"} |-> [i \in PluginIds |-> "none"]]
    /\ lastList = None
    /\ tree = NoTrees
    /\ calls = NoCalls
    /\ bulk = NoBulk
    /\ locked = {}
    /\ deps \in {FileAbsent, ForeignManifest}
    /\ npm = [p \in Packages |-> "absent"]
    /\ stores = NoStores

NextManifest ==
    \/ MarketplaceInstall
    \/ MarketplaceUninstall
    \/ PluginUninstall

SpecManifest == InitManifest /\ [][NextManifest]_vars

(* plugin_uninstall running concurrently with the marketplace commands:    *)
(* the marketplace commands hold the MARKETPLACE_SERVICE mutex from start  *)
(* to end, plugin_uninstall takes no lock, so a whole marketplace command  *)
(* fits between its read of package.json and its write                     *)
NoUninstallCall == [pc |-> "idle", id |-> "", data |-> FileAbsent]

(* plugin_uninstall up to the parse of package.json; the paths that return *)
(* before or without a write end the call here                             *)
PluginUninstallBegin ==
    /\ calls.pc = "idle"
    /\ \E id \in PluginIds, out \in NpmOutputs :
          LET r == plugin_uninstall(deps, npm, cmdFile, id, out)
          IN /\ npm' = r.npm
             /\ cmdFile' = r.state
             /\ IF r.ok /\ deps.st = "ok"
                THEN /\ calls' = [pc |-> "read", id |-> id, data |-> deps]
                     /\ UNCHANGED ret
                ELSE /\ ret' = [op |-> "plugin_uninstall", ok |-> r.ok, err |-> r.err,
                                id |-> id, npm_output |-> out, npm_runs |-> r.npm_runs]
                     /\ UNCHANGED calls
    /\ UNCHANGED <<input, output, now, disk, svcFile, stateCache, listCache, lastFlag,
                   lastList, bulk, locked, deps, stores, marketVars, fsVars>>

(* plugin_uninstall from the removal of the key in the document it read to *)
(* the write of package.json and the return                                *)
PluginUninstallFinish ==
    /\ calls.pc = "read"
    /\ deps' = with_dependencies(calls.data,
                                 map_remove(calls.data.map, PackageOf(calls.id)))
    /\ ret' = [op |-> "plugin_uninstall", ok |-> TRUE, err |-> "", id |-> calls.id,
               npm_output |-> NpmOutput(TRUE, ""), npm_runs |-> 1]
    /\ calls' = NoUninstallCall
    /\ UNCHANGED <<input, output, now, disk, svcFile, cmdFile, stateCache, listCache,
                   lastFlag, lastList, bulk, locked, npm, stores, marketVars, fsVars>>

InitWriters ==
    /\ MarketIdle
    /\ input = <<>>
    /\ output = Pending
    /\ now = 0
    /\ disk = [i \in PluginIds |-> DirAbsent]
    /\ svcFile = FileAbsent
    /\ cmdFile = FileAbsent
    /\ stateCache = None
    /\ listCache = None
    /\ ret = NoRet
    /\ lastFlag = [st \in {"svc", "cmd"} |-> [i \in PluginIds |-> "none"]]
    /\ lastList = None
    /\ tree = NoTrees
    /\ calls = NoUninstallCall
    /\ bulk = NoBulk
    /\ locked = {}
    /\ deps \in {FileAbsent, ForeignManifest}
    /\ npm = [p \in Packages |-> "absent"]
    /\ stores = NoStores

NextWriters ==
    \/ MarketplaceInstall
    \/ MarketplaceUninstall
    \/ PluginUninstallBegin
    \/ PluginUninstallFinish

SpecWriters == InitWriters /\ [][NextWriters]_vars

---------------------------------------------------------------------------
(* The update check: MarketplaceService::check_updates behind              *)
(* marketplace_check_updates                                               *)

Versions == {"1.0.0", "1.1.0"}

(* what `curl -s https://registry.npmjs.org/<package>` gives: curl cannot  *)
(* be started, exits non-zero, or prints a body; `version` is the          *)
(* top-level "version" of the body (absent when the body is not JSON or    *)
(* has no such field), `latest` the version the registry holds as latest   *)
CurlAnswers ==
    { [st |-> st, version |-> version, latest |-> latest] :
        st \in {"unavailable", "failed", "ok"}, latest \in Versions,
        version \in {JAbsent} \cup { JStr(v) : v \in Versions } }

Answers == { a \in CurlAnswers : /\ a.version.t = "str" => a.version.str = a.latest
                                 /\ a.st # "ok" => a.version = JAbsent }

PluginUpdateInfo(package_name, current_version, latest_version) ==
    [package_name |-> package_name, current_version |-> current_version,
     latest_version |-> latest_version, has_update |-> TRUE]

(* the version compared with the dependency specifier of the manifest *)
latest_version(current_version, answer) ==
    IF answer.st = "ok"
    THEN IF answer.version.t = "str" THEN answer.version.str ELSE "0.0.0"
    ELSE current_version

(* MarketplaceService::check_updates over the package.json found under the *)
(* current directory; answers[package] is what curl gives for the package  *)
check_updates(file, answers) ==
    IF file.st = "absent"
    THEN [ok |-> TRUE, err |-> "", updates |-> {}]
    ELSE IF file.st = "malformed"
    THEN [ok |-> FALSE, err |-> "Failed to parse package.json", updates |-> {}]
    ELSE IF \E package_name \in DOMAIN file.map : answers[package_name].st = "unavailable"
    THEN [ok |-> FALSE, err |-> "Failed to fetch package info", updates |-> {}]
    ELSE [ok |-> TRUE, err |-> "",
          updates |-> { PluginUpdateInfo(package_name, file.map[package_name],
                                         latest_version(file.map[package_name],
                                                        answers[package_name])) :
                          package_name \in
                              { q \in DOMAIN file.map :
                                    latest_version(file.map[q], answers[q]) # file.map[q] } }]

(* marketplace_check_updates; the process runs in the application data     *)
(* directory (in_data_dir) or in a directory without plugins/package.json, *)
(* the registry answers alike for every package, and every installed       *)
(* package is in node_modules at the version `installed`                   *)
CheckUpdates ==
    \E in_data_dir \in BOOLEAN, answer \in Answers, installed \in Versions :
        LET file == IF in_data_dir THEN deps ELSE FileAbsent
            r == check_updates(file, [q \in DOMAIN file.map |-> answer])
        IN /\ ret' = [op |-> "check_updates", ok |-> r.ok, err |-> r.err,
                      updates |-> r.updates, latest |-> answer.latest,
                      installed |-> installed]
           /\ UNCHANGED <<input, output, now, disk, svcFile, cmdFile, stateCache,
                          listCache, lastFlag, lastList, extVars>>

NextUpdates ==
    \/ MarketplaceInstall
    \/ MarketplaceUninstall
    \/ CheckUpdates

SpecUpdates == InitManifest /\ [][NextUpdates]_vars

---------------------------------------------------------------------------
(* Marketplace discovery: MarketplaceService::list_plugins, search_plugins  *)
(* and convert_npm_to_marketplace (services/marketplace_service.rs) behind  *)
(* marketplace_list, marketplace_search and marketplace_get_plugin          *)
(* (cmds/marketplace.rs)                                                    *)

(* `page` and `page_size` are u32; u32 is modelled WordBits wide *)
WordBits == 3
U32 == 2 ^ WordBits

(* longest ranking the registry holds *)
MaxHits == 2

Min(x, y) == IF x <= y THEN x ELSE y

saturating_sub(x, y) == IF x >= y THEN x - y ELSE 0

Id_a == <<"a">>
Id_ab == <<"a", "b">>
Id_b == <<"b">>
Str_all == <<"a", "l", "l">>
Str_media == CategoryNames["Media"]

(* package.json of the latest version of a package *)
VersionJson(id, category) ==
    [ name |-> JStr(RegistryPrefix \o id),
      description |-> JAbsent,
      etools |-> JObj([ id |-> JStr(id),
                        displayName |-> JStr(id),
                        category |-> JStr(category),
                        permissions |-> JArr(<<>>),
                        triggers |-> JArr(<<JStr(id)>>),
                        description |-> JAbsent,
                        icon |-> JAbsent,
                        homepage |-> JAbsent,
                        screenshots |-> JAbsent,
                        settings |-> JAbsent ]) ]

NoEtoolsJson(id) ==
    [ name |-> JStr(RegistryPrefix \o id), description |-> JAbsent, etools |-> JAbsent ]

(* what fetch_package_json gets for a package: an error, or the document   *)
(* with the package.json of its latest version, if it lists one            *)
FetchError == [fetched |-> FALSE, latest |-> None]
PackageInfo(latest) == [fetched |-> TRUE, latest |-> latest]

(* a search hit: the package name, the query texts it is ranked for, and   *)
(* what the registry serves for it                                         *)
Hit(id, text, info) == [name |-> RegistryPrefix \o id, text |-> text, info |-> info]

HitKinds == {
    Hit(Id_a, {Id_a, RegistryPrefix \o Id_a},
        PackageInfo(Some(VersionJson(Id_a, Str_developer)))),
    Hit(Id_ab, {Id_a, Id_b}, PackageInfo(Some(VersionJson(Id_ab, Str_media)))),
    Hit(<<"c">>, {Id_a}, FetchError),
    Hit(<<"d">>, {Id_b}, PackageInfo(None)),
    Hit(<<"e">>, {Id_a, Id_b}, PackageInfo(Some(NoEtoolsJson(<<"e">>)))) }

Queries == {Id_a, Id_b}

(* category filter of list / search: Option<&str> *)
CategoryFilters == {None, Some(Str_all), Some(Str_developer)}

(* every page with some page sizes, and the first pages of a browsing client *)
Pages == 0..(U32 - 1)
PageSizes == {1, 2, U32 \div 2}
BrowsePages == {1, 2}
BrowseSizes == {1, 2}

(* format!("{:?}", category): the variant name *)
category_debug(c) == <<char_to_uppercase(Head(CategoryNames[c]))>> \o Tail(CategoryNames[c])

(* one element of the filter_map of convert_npm_to_marketplace *)
convert_hit(hit, category_filter) ==
    IF ~hit.info.fetched THEN None
    ELSE IF ~hit.info.latest.some THEN None
    ELSE LET metadata == from_package_json(hit.info.latest.v)
         IN IF ~metadata.ok THEN None
            ELSE IF /\ category_filter.some
                    /\ category_filter.v # Str_all
                    /\ to_lowercase(category_debug(metadata.v.category)) # category_filter.v
            THEN None
            ELSE Some([ id |-> metadata.v.id,
                        name |-> metadata.v.display_name,
                        category |-> metadata.v.category,
                        package |-> hit.name ])

RECURSIVE convert_npm_to_marketplace(_, _)
convert_npm_until_failure(objects, category_filter) ==
    IF objects = <<>> THEN <<>>
    ELSE LET first == convert_hit(Head(objects), category_filter)
         IN IF first.some
            THEN <<first.v>> \o convert_npm_to_marketplace(Tail(objects), category_filter)
            ELSE <<>>

convert_npm_to_marketplace(objects, category_filter) ==
    IF objects = <<>> THEN <<>>
    ELSE LET first == convert_hit(Head(objects), category_filter)
             rest == convert_npm_to_marketplace(Tail(objects), category_filter)
         IN IF first.some THEN <<first.v>> \o rest ELSE rest

(* the registry's answer to text=<text>&size=<size>&from=<from>; text is   *)
(* None for the bare discovery tag                                         *)
npm_search(reg, text, size, from) ==
    LET ranked == IF text.some THEN SelectSeq(reg.hits, LAMBDA h : text.v \in h.text)
                  ELSE reg.hits
    IN [ objects |-> IF from >= Len(ranked) THEN <<>>
                     ELSE SubSeq(ranked, from + 1, Min(from + size, Len(ranked))),
         total |-> reg.total ]

PageErr(msg) == [ok |-> FALSE, panic |-> FALSE, err |-> msg, response |-> None, page |-> None]
PagePanic == [ok |-> FALSE, panic |-> TRUE, err |-> "attempt to multiply with overflow",
              response |-> None, page |-> None]

(* list_plugins / search_plugins; search_ok: the search request came back  *)
(* with a parsable 2xx answer; overflow_checks: the build panics on        *)
(* arithmetic overflow instead of wrapping                                 *)
search_page(reg, text, category, page, page_size, search_ok, overflow_checks) ==
    LET product == saturating_sub(page, 1) * page_size
        from == product % U32
        response == npm_search(reg, text, page_size, from)
        total == response.total % U32
        object_count == Len(response.objects)
    IN IF product >= U32 /\ overflow_checks THEN PagePanic
       ELSE IF ~search_ok THEN PageErr("Failed to fetch from npm")
       ELSE [ ok |-> TRUE, panic |-> FALSE, err |-> "",
              response |-> Some(response),
              page |-> Some([ plugins |-> convert_npm_to_marketplace(response.objects, category),
                              total |-> total,
                              page |-> page,
                              page_size |-> page_size,
                              has_more |-> (from + object_count) < total ]) ]

LockErr == PageErr("Failed to acquire lock")

(* marketplace_list / marketplace_search: lock the service, then call it; *)
(* a panic under the lock poisons the mutex                               *)
MarketplaceQuery(opname, text, filters, pages, sizes) ==
    \E category \in filters, page \in pages, page_size \in sizes, search_ok \in BOOLEAN :
        LET r == IF service.poisoned THEN LockErr
                 ELSE search_page(registry, text, category, page, page_size,
                                  search_ok, service.overflow_checks)
        IN /\ service' = [service EXCEPT !.poisoned = @ \/ r.panic]
           /\ ret' = [ op |-> opname, ok |-> r.ok, panic |-> r.panic, err |-> r.err,
                       text |-> text, category |-> category, page |-> page,
                       page_size |-> page_size,
                       searched |-> IF service.poisoned \/ r.panic THEN None
                                    ELSE Some(search_ok),
                       response |-> r.response, result |-> r.page ]
           /\ UNCHANGED <<input, output, now, disk, svcFile, cmdFile, stateCache,
                          listCache, lastFlag, lastList, bulk, locked, installVars,
                          registry, fsVars, callVars>>

MarketplaceList ==
    MarketplaceQuery("marketplace_list", None, CategoryFilters, BrowsePages, BrowseSizes)

MarketplaceSearch ==
    \E query \in Queries :
        MarketplaceQuery("marketplace_search", Some(query), CategoryFilters,
                         BrowsePages, BrowseSizes)

(* the same handlers called with any page number *)
MarketplaceListPaged ==
    MarketplaceQuery("marketplace_list", None, {None}, Pages, PageSizes)

MarketplaceSearchPaged ==
    MarketplaceQuery("marketplace_search", Some(Id_a), {None}, Pages, PageSizes)

(* marketplace_get_plugin: search_plugins(name, None, 1, 1), then the      *)
(* first plugin whose id is the name asked for                             *)
find_plugin(plugins, package_name) ==
    IF \E i \in 1..Len(plugins) : plugins[i].id = package_name
    THEN Some(plugins[CHOOSE i \in 1..Len(plugins) :
                         /\ plugins[i].id = package_name
                         /\ \A j \in 1..(i - 1) : plugins[j].id # package_name])
    ELSE None

marketplace_get_plugin(reg, lock_poisoned, package_name, search_ok) ==
    LET r == IF lock_poisoned THEN LockErr
             ELSE search_page(reg, Some(package_name), None, 1, 1, search_ok, FALSE)
        found == find_plugin(r.page.v.plugins, package_name)
    IN IF ~r.ok THEN [ok |-> FALSE, err |-> r.err, plugin |-> None]
       ELSE IF found.some THEN [ok |-> TRUE, err |-> "", plugin |-> found]
       ELSE [ok |-> FALSE, err |-> "Plugin not found", plugin |-> None]

(* names get_plugin is asked for: plugin ids and a namespaced package name *)
GetPluginNames == {Id_a, Id_ab, Id_b, RegistryPrefix \o Id_a}

MarketplaceGetPlugin ==
    \E package_name \in GetPluginNames, search_ok \in BOOLEAN :
        LET r == marketplace_get_plugin(registry, service.poisoned, package_name, search_ok)
        IN /\ ret' = [ op |-> "marketplace_get_plugin", ok |-> r.ok, err |-> r.err,
                       package_name |-> package_name, plugin |-> r.plugin,
                       searched |-> IF service.poisoned THEN None ELSE Some(search_ok) ]
           /\ UNCHANGED <<input, output, now, disk, svcFile, cmdFile, stateCache,
                          listCache, lastFlag, lastList, bulk, locked, installVars,
                          marketVars, fsVars, callVars>>

(* registries: rankings without repetition that report their own length *)
Rankings ==
    { h \in SeqsUpTo(HitKinds, MaxHits) :
        \A i, j \in 1..Len(h) : h[i] = h[j] => i = j }

InitMarket ==
    /\ input = <<>>
    /\ output = Pending
    /\ CoreIdle
    /\ StoreIdle
    /\ service = ServiceOf(FALSE)
    /\ registry \in { [hits |-> h, total |-> Len(h)] : h \in Rankings }

NextMarket ==
    \/ MarketplaceList
    \/ MarketplaceSearch
    \/ MarketplaceGetPlugin

SpecMarket == InitMarket /\ [][NextMarket]_vars

(* paging over one ranking whose reported total is small, or beyond u32, in *)
(* a build with and without overflow checks                                *)
PagingHits ==
    << Hit(Id_a, {Id_a}, PackageInfo(Some(VersionJson(Id_a, Str_developer)))),
       Hit(<<"e">>, {Id_a, Id_b}, PackageInfo(Some(NoEtoolsJson(<<"e">>)))),
       Hit(Id_ab, {Id_a, Id_b}, PackageInfo(Some(VersionJson(Id_ab, Str_media)))) >>

InitPaging ==
    /\ input = <<>>
    /\ output = Pending
    /\ CoreIdle
    /\ StoreIdle
    /\ service \in { ServiceOf(c) : c \in BOOLEAN }
    /\ registry \in { [hits |-> PagingHits, total |-> t] :
                        t \in {Len(PagingHits), Len(PagingHits) + U32} }

NextPaging ==
    \/ MarketplaceListPaged
    \/ MarketplaceSearchPaged

SpecPaging == InitPaging /\ [][NextPaging]_vars

---------------------------------------------------------------------------
(* Addressing an installed plugin: cmds/plugins.rs find_plugin_path,       *)
(* enable_plugin and disable_plugin, and the listing                       *)
(* cmds/marketplace.rs get_installed_plugins                               *)

(* str::strip_prefix(prefix).unwrap_or(s) *)
strip_prefix_or(s, prefix) ==
    IF Len(s) >= Len(prefix) /\ SubSeq(s, 1, Len(prefix)) = prefix
    THEN SubSeq(s, Len(prefix) + 1, Len(s))
    ELSE s

(* plugins/node_modules/@etools-plugin/<short id>, named by the package    *)
(* that npm keeps there                                                    *)
find_plugin_path(n, plugin_id) ==
    LET short_id == strip_prefix_or(plugin_id, "@etools-plugin/")
        plugin_path == "@etools-plugin/" \o short_id
    IN IF plugin_path \in DOMAIN n /\ n[plugin_path] = "installed"
       THEN Some(plugin_path)
       ELSE None

(* enable_plugin / disable_plugin of the command layer; manifest_ok tells  *)
(* whether package.json or plugin.json of the plugin can be read           *)
set_enabled_cmd(n, st, usage, plugin_id, flag, manifest_ok) ==
    LET actual_path == find_plugin_path(n, plugin_id)
        written == FileOf(map_insert(StoreMap(st), plugin_id, flag))
    IN IF ~actual_path.some
       THEN [ok |-> FALSE, err |-> "plugin does not exist", state |-> st,
             install_path |-> None]
       ELSE IF st.st = "malformed"
       THEN [ok |-> FALSE, err |-> "Failed to parse plugin state", state |-> st,
             install_path |-> actual_path]
       ELSE IF ~manifest_ok
       THEN [ok |-> FALSE, err |-> "Failed to read manifest", state |-> written,
             install_path |-> actual_path]
       ELSE IF usage.st = "malformed"
       THEN [ok |-> FALSE, err |-> "Failed to parse plugin usage stats",
             state |-> written, install_path |-> actual_path]
       ELSE [ok |-> TRUE, err |-> "", state |-> written, install_path |-> actual_path]

(* a plugin is addressed by its short id or by its package name *)
Addresses == PluginIds \cup Packages

SetEnabledCmd(opname, flag) ==
    \E plugin_id \in Addresses, manifest_ok \in BOOLEAN :
        LET r == set_enabled_cmd(npm, cmdFile, stores.usage, plugin_id, flag, manifest_ok)
        IN /\ cmdFile' = r.state
           /\ lastFlag' = IF plugin_id \in PluginIds /\ r.state # cmdFile
                          THEN [lastFlag EXCEPT !["cmd"][plugin_id] = FlagName(flag)]
                          ELSE lastFlag
           /\ ret' = [op |-> opname, ok |-> r.ok, err |-> r.err, plugin_id |-> plugin_id,
                      flag |-> flag, install_path |-> r.install_path]
           /\ UNCHANGED <<extVars, input, output, now, disk, svcFile, stateCache,
                          listCache, lastList>>

EnablePluginCmd == SetEnabledCmd("enable_plugin", TRUE)

DisablePluginCmd == SetEnabledCmd("disable_plugin", FALSE)

(* get_installed_plugins: package.json is created when missing; every      *)
(* dependency whose package directory exists is listed under the id of its *)
(* metadata, with the flag the Enablement store holds for that id          *)
get_installed_plugins(d, n, st) ==
    LET created == IF d.st = "absent" THEN EmptyManifest ELSE d
        listed == { pkg \in DOMAIN created.map : pkg \in DOMAIN n /\ n[pkg] = "installed" }
    IN IF created.st = "malformed"
       THEN [ok |-> FALSE, deps |-> created, plugins |-> {}]
       ELSE [ok |-> TRUE, deps |-> created,
             plugins |-> { [id |-> strip_prefix_or(pkg, "@etools-plugin/"),
                            enabled |-> enabled_or_default(st,
                                            strip_prefix_or(pkg, "@etools-plugin/"))]
                           : pkg \in listed }]

GetInstalledPlugins ==
    LET r == get_installed_plugins(deps, npm, cmdFile)
    IN /\ deps' = r.deps
       /\ ret' = [op |-> "get_installed_plugins", ok |-> r.ok, plugins |-> r.plugins]
       /\ UNCHANGED <<input, output, now, disk, svcFile, cmdFile, stateCache, listCache,
                      lastFlag, lastList, bulk, locked, npm, stores, marketVars, fsVars, callVars>>

(* the command layer over an empty installation *)
InitAddress ==
    /\ MarketIdle
    /\ input = <<>>
    /\ output = Pending
    /\ now = 0
    /\ disk = [i \in PluginIds |-> DirAbsent]
    /\ svcFile = FileAbsent
    /\ cmdFile = FileAbsent
    /\ stateCache = None
    /\ listCache = None
    /\ ret = NoRet
    /\ lastFlag = [st \in {"svc", "cmd"} |-> [i \in PluginIds |-> "none"]]
    /\ lastList = None
    /\ tree = NoTrees
    /\ calls = NoCalls
    /\ bulk = NoBulk
    /\ locked = {}
    /\ deps = FileAbsent
    /\ npm = [p \in Packages |-> "absent"]
    /\ stores \in {NoStores, [NoStores EXCEPT !.usage = FileMalformed]}

NextAddress ==
    \/ MarketplaceInstall
    \/ EnablePluginCmd
    \/ DisablePluginCmd
    \/ GetInstalledPlugins
    \/ PluginUninstall

SpecAddress == InitAddress /\ [][NextAddress]_vars

---------------------------------------------------------------------------
(* Manifest validation of a local plugin: cmds/plugins.rs                  *)
(* validate_plugin_manifest over plugins/<id>/plugin.json                  *)

Digits == <<"0","1","2","3","4","5","6","7","8","9">>

InSeq(c, s) == \E i \in 1..Len(s) : s[i] = c

is_alphanumeric(c) == InSeq(c, LowerChars) \/ InSeq(c, UpperChars) \/ InSeq(c, Digits)
is_ascii_digit(c) == InSeq(c, Digits)
ends_with(s, c) == Len(s) > 0 /\ s[Len(s)] = c
all_chars(s, P(_)) == \A i \in 1..Len(s) : P(s[i])

valid_permissions ==
    {"read_clipboard", "write_clipboard", "read_file", "write_file",
     "network", "shell", "notification"}

push_if(cond, x) == IF cond THEN <<x>> ELSE <<>>

(* one warning for each element of a list that satisfies P *)
push_each(list, P(_), x) == [i \in 1..Len(SelectSeq(list, P)) |-> x]

(* the entry-point check *)
entry_errors_unchecked(dir, entry) ==
    push_if(entry = <<>>, "EmptyEntry")

entry_errors(dir, entry) ==
    IF entry = <<>> THEN <<"EmptyEntry">>
    ELSE push_if(entry \notin dir.files, "EntryMissing")

manifest_errors(plugin_id, dir, manifest) ==
    push_if(plugin_id = <<>>, "EmptyId")
    \o push_if(~all_chars(plugin_id, LAMBDA c : is_alphanumeric(c) \/ c = "-" \/ c = "_"),
               "InvalidIdChars")
    \o push_if(manifest.name = <<>>, "EmptyName")
    \o push_if(manifest.version = <<>>, "EmptyVersion")
    \o entry_errors(dir, manifest.entry)

manifest_warnings(manifest) ==
    push_if(~all_chars(manifest.version, LAMBDA c : is_ascii_digit(c) \/ c = "."),
            "VersionFormat")
    \o push_if(manifest.triggers = <<>>, "NoTriggers")
    \o push_each(manifest.triggers, LAMBDA t : ~ends_with(t, ":"), "TriggerColon")
    \o push_each(manifest.permissions, LAMBDA perm : perm \notin valid_permissions,
                 "UnknownPermission")
    \o push_if(InSeq("shell", manifest.permissions), "DangerousShell")

PluginValidationResult(errors, warnings) ==
    [is_valid |-> errors = <<>>, errors |-> errors, warnings |-> warnings]

validate_plugin_manifest(plugin_id, dir) ==
    IF ~dir.manifest_exists
    THEN [is_valid |-> FALSE, errors |-> <<"ManifestMissing">>, warnings |-> <<>>]
    ELSE IF ~dir.manifest.some
    THEN [is_valid |-> FALSE, errors |-> <<"ParseFailed">>, warnings |-> <<>>]
    ELSE PluginValidationResult(manifest_errors(plugin_id, dir, dir.manifest.v),
                                manifest_warnings(dir.manifest.v))

(* inputs of the validation: directory names and plugin directories *)
Str_index == <<"i","n","d","e","x">>

ValidationIds == {<<>>, <<"a","-","1","_","B">>, <<"a"," ","b">>}

ManifestValues ==
    [ name : {<<>>, <<"n">>},
      version : {<<>>, <<"1",".","0">>, <<"v","1">>},
      entry : {<<>>, Str_index},
      triggers : {<<>>, <<<<"t",":">>>>, <<<<"t">>, <<"u",":">>>>},
      permissions : {<<>>, <<"network">>, <<"shell">>, <<"camera">>,
                     <<"camera", "shell", "gps">>} ]

PluginDirs ==
    { [manifest_exists |-> FALSE, manifest |-> None, files |-> {}],
      [manifest_exists |-> TRUE, manifest |-> None, files |-> {}] }
    \cup [ manifest_exists : {TRUE},
           manifest : { Some(m) : m \in ManifestValues },
           files : {{}, {Str_index}} ]

InitValidate ==
    /\ input \in [plugin_id : ValidationIds, dir : PluginDirs]
    /\ output = Pending
    /\ LifecycleIdle

ValidatePluginManifest ==
    /\ ~Done
    /\ output' = Ok(validate_plugin_manifest(input.plugin_id, input.dir))
    /\ UNCHANGED <<extVars, input, lifecycleVars>>

NextValidate == ValidatePluginManifest

SpecValidate == InitValidate /\ [][NextValidate]_vars

---------------------------------------------------------------------------
(* Installing a plugin from a local directory: cmds/plugins.rs             *)
(* install_plugin and copy_dir_recursive                                   *)

(* a path is the sequence of its components *)
Str_plugins == <<"p","l","u","g","i","n","s">>
Str_stage == <<"s","t","a","g","e">>
Str_other == <<"o","t","h","e","r">>
Str_lib == <<"l","i","b">>
Str_old == <<"o","l","d">>

plugins_dir == <<Str_plugins>>

join(path, name) == Append(path, name)

file_name(path) == path[Len(path)]

is_prefix(p, q) == Len(p) <= Len(q) /\ SubSeq(q, 1, Len(p)) = p

(* a directory tree: its plugin.json and the other files it holds *)
NoTree == [exists |-> FALSE, manifest_exists |-> FALSE, manifest |-> None, files |-> {}]

EmptyDir == [exists |-> TRUE, manifest_exists |-> FALSE, manifest |-> None, files |-> {}]

TreeOf(manifest, files) ==
    [exists |-> TRUE, manifest_exists |-> TRUE, manifest |-> manifest, files |-> files]

ManifestOf(version) ==
    [name |-> <<"n">>, version |-> version, entry |-> Str_index,
     triggers |-> <<<<"t", ":">>>>, permissions |-> <<>>]

(* fs::remove_dir_all: the directory and every path below it are gone *)
remove_dir_all(t, dir) ==
    [p \in DOMAIN t |-> IF is_prefix(dir, p) THEN NoTree ELSE t[p]]

(* copy_dir_recursive: create the target, then copy every entry of the     *)
(* source over what the target holds                                       *)
copy_dir_recursive(t, source, target) ==
    LET created == IF t[target].exists THEN t ELSE [t EXCEPT ![target] = EmptyDir]
    IN IF ~created[source].exists
       THEN [ok |-> FALSE, tree |-> created]
       ELSE [ok |-> TRUE,
             tree |-> [created EXCEPT ![target] =
                         [exists |-> TRUE,
                          manifest_exists |-> created[source].manifest_exists
                                              \/ @.manifest_exists,
                          manifest |-> IF created[source].manifest_exists
                                       THEN created[source].manifest ELSE @.manifest,
                          files |-> @.files \cup created[source].files]]]

LocalErr(t, msg) == [ok |-> FALSE, err |-> msg, tree |-> t, plugin |-> None]

(* install_plugin: the manifest is read from the source, the validation    *)
(* reads plugins/<id>, the existing directory is removed and the source    *)
(* copied                                                                  *)
install_local(t, plugin_path) ==
    LET source == t[plugin_path]
        plugin_id == file_name(plugin_path)
        target_dir == join(plugins_dir, plugin_id)
    IN IF ~source.exists
       THEN LocalErr(t, "Plugin path does not exist")
       ELSE IF ~source.manifest_exists \/ ~source.manifest.some
       THEN LocalErr(t, "Failed to read manifest")
       ELSE IF ~validate_plugin_manifest(plugin_id, t[target_dir]).is_valid
       THEN LocalErr(t, "Plugin validation failed")
       ELSE LET removed == IF t[target_dir].exists THEN remove_dir_all(t, target_dir)
                           ELSE t
                copied == copy_dir_recursive(removed, plugin_path, target_dir)
            IN IF ~copied.ok
               THEN LocalErr(copied.tree, "Failed to read source directory")
               ELSE [ok |-> TRUE, err |-> "", tree |-> copied.tree,
                     plugin |-> Some([id |-> plugin_id,
                                      version |-> source.manifest.v.version,
                                      install_path |-> target_dir])]

(* the live directory of plugin "a" and two directories named "a" elsewhere *)
LivePath == join(plugins_dir, Id_a)
StagePath == <<Str_stage, Id_a>>
OtherPath == <<Str_other, Id_a>>
Paths == {LivePath, StagePath, OtherPath}

LiveTrees ==
    { NoTree,
      TreeOf(None, {Str_old}),
      TreeOf(Some(ManifestOf(<<"1">>)), {Str_old}),
      TreeOf(Some(ManifestOf(<<"1">>)), {Str_index, Str_old}) }

SourceTrees ==
    { NoTree,
      EmptyDir,
      TreeOf(None, {Str_index}),
      TreeOf(Some(ManifestOf(<<"2">>)), {Str_index}),
      TreeOf(Some(ManifestOf(<<"3">>)), {Str_index, Str_lib}) }

InstallPlugin ==
    \E plugin_path \in Paths :
        LET r == install_local(tree, plugin_path)
        IN /\ tree' = r.tree
           /\ ret' = [op |-> "install_plugin", ok |-> r.ok, err |-> r.err,
                      plugin_path |-> plugin_path, plugin |-> r.plugin]
           /\ UNCHANGED <<input, output, now, disk, svcFile, cmdFile, stateCache,
                          listCache, lastFlag, lastList, bulk, locked, installVars,
                          marketVars, callVars>>

InitLocal ==
    /\ MarketIdle
    /\ input = <<>>
    /\ output = Pending
    /\ now = 0
    /\ disk = <<>>
    /\ svcFile = FileAbsent
    /\ cmdFile = FileAbsent
    /\ stateCache = None
    /\ listCache = None
    /\ ret = NoRet
    /\ lastFlag = <<>>
    /\ lastList = None
    /\ bulk = NoBulk
    /\ locked = {}
    /\ deps = FileAbsent
    /\ npm = [p \in Packages |-> "absent"]
    /\ stores = NoStores
    /\ calls = NoCalls
    /\ tree \in { [p \in Paths |-> IF p = LivePath THEN l
                                   ELSE IF p = StagePath THEN s ELSE o] :
                    l \in LiveTrees, s \in SourceTrees, o \in SourceTrees }

NextLocal == InstallPlugin

SpecLocal == InitLocal /\ [][NextLocal]_vars

---------------------------------------------------------------------------
(* PluginService::list_plugins running concurrently with enable_plugin /   *)
(* disable_plugin: the scan and the cache store of list_plugins are two    *)
(* steps, and a whole enable_plugin / disable_plugin call fits in between  *)

(* no list_plugins call in flight; `seen` and `stored` remember which      *)
(* enable/disable writes had been made when the list in flight, and the    *)
(* list last stored in the cache, were scanned                             *)
NoListCall(seen) == [pc |-> "idle", plugins |-> {}, seen |-> seen, stored |-> seen]

(* list_plugins up to the end of the directory scan; a cache hit returns   *)
ListScan ==
    /\ calls.pc = "idle"
    /\ LET cached == cache_get(listCache, ListTTL, now)
       IN IF cached.some
          THEN /\ ret' = [op |-> "list_plugins", ok |-> TRUE, scanned |-> FALSE,
                          result |-> cached.v]
               /\ lastList' = Some(cached.v)
               /\ UNCHANGED calls
          ELSE /\ calls' = [calls EXCEPT !.pc = "scanned",
                                         !.plugins = scan_plugins(disk),
                                         !.seen = lastFlag["svc"]]
               /\ UNCHANGED <<ret, lastList>>
    /\ UNCHANGED <<input, output, now, disk, svcFile, cmdFile, stateCache, listCache,
                   lastFlag, bulk, locked, installVars, marketVars, fsVars>>

(* list_plugins from cache.set_plugins to its return *)
ListStore ==
    /\ calls.pc = "scanned"
    /\ listCache' = CacheEntry(calls.plugins, now)
    /\ ret' = [op |-> "list_plugins", ok |-> TRUE, scanned |-> TRUE,
               result |-> calls.plugins]
    /\ lastList' = Some(calls.plugins)
    /\ calls' = [calls EXCEPT !.pc = "idle", !.plugins = {}, !.stored = calls.seen]
    /\ UNCHANGED <<input, output, now, disk, svcFile, cmdFile, stateCache, lastFlag,
                   bulk, locked, installVars, marketVars, fsVars>>

InitRace ==
    /\ input = <<>>
    /\ output = Pending
    /\ now = 0
    /\ disk \in InitDisks
    /\ svcFile \in {FileAbsent, FileMalformed}
    /\ cmdFile = FileAbsent
    /\ stateCache = None
    /\ listCache = None
    /\ ret = NoRet
    /\ lastFlag = [st \in {"svc", "cmd"} |-> [i \in PluginIds |-> "none"]]
    /\ lastList = None
    /\ MarketIdle
    /\ tree = NoTrees
    /\ bulk = NoBulk
    /\ locked = {}
    /\ deps = FileAbsent
    /\ npm = [p \in Packages |-> "absent"]
    /\ stores = NoStores
    /\ calls = NoListCall(lastFlag["svc"])

NextRace ==
    \/ ListScan
    \/ ListStore
    \/ EnablePlugin
    \/ DisablePlugin

SpecRace == InitRace /\ [][NextRace]_vars

---------------------------------------------------------------------------
(* Properties of the metadata validator (SpecMeta, SpecCat) *)

RequiredFields == <<"id", "displayName", "category", "permissions", "triggers">>

HasMeta(m) == m.etools.t = "obj"
HasNamespacedName(m) == m.name.t = "str" /\ starts_with(m.name.str, RegistryPrefix)
FieldTyped(e, f) ==
    IF f \in {"permissions", "triggers"} THEN e[f].t = "arr" ELSE e[f].t = "str"
AllRequired(m) ==
    \A i \in 1..Len(RequiredFields) : FieldTyped(m.etools.obj, RequiredFields[i])
IsSpelling(s, w) ==
    /\ Len(s) = Len(w)
    /\ \A i \in 1..Len(w) : s[i] \in {w[i], char_to_uppercase(w[i])}
CategoryKnown(m) ==
    \E c \in PluginCategory : IsSpelling(m.etools.obj.category.str, CategoryNames[c])
Kind(r) == IF r.ok THEN "none" ELSE r.err
FirstUntyped(e, fields) ==
    fields[CHOOSE i \in 1..Len(fields) :
              /\ ~FieldTyped(e, fields[i])
              /\ \A j \in 1..(i - 1) : FieldTyped(e, fields[j])]

\* C1: a manifest whose etools value is absent or not an object is rejected
\* with MissingEtoolsField and no other error, whatever its other fields are.
C1_MissingEtoolsOnly ==
    (Done /\ ~HasMeta(input)) => output = MissingEtoolsField

C1_Witness ==
    /\ Done
    /\ ~HasMeta(input)
    /\ ~HasNamespacedName(input)
    /\ output = MissingEtoolsField

\* C2 as claimed: the error is the one of the earliest failing step of
\* (1) namespaced name, (2) etools object, (3) the five required fields,
\* (4) category in the enum.
ClaimedKind(m) ==
    IF ~HasNamespacedName(m) THEN "InvalidPackageName"
    ELSE IF ~HasMeta(m) THEN "MissingEtoolsField"
    ELSE IF ~AllRequired(m) THEN "MissingRequiredField"
    ELSE IF ~CategoryKnown(m) THEN "InvalidCategory"
    ELSE "none"

C2_ClaimedOrder == Done => Kind(output) = ClaimedKind(input)

\* C2 amended: the error is the one of the earliest failing step of
\* (1) etools object -> MissingEtoolsField, (2) name is a string ->
\* MissingRequiredField{name}, (3) name namespaced -> InvalidPackageName,
\* (4) id, displayName, category present and strings -> MissingRequiredField
\* of the first one that is not, (5) category in the enum -> InvalidCategory,
\* (6) permissions, triggers present and arrays -> MissingRequiredField;
\* a manifest that fails no step parses.
FirstFailure(m) ==
    IF ~HasMeta(m) THEN MissingEtoolsField
    ELSE IF m.name.t # "str" THEN MissingRequiredField("name")
    ELSE IF ~HasNamespacedName(m) THEN InvalidPackageName(m.name.str)
    ELSE IF \E i \in 1..3 : ~FieldTyped(m.etools.obj, RequiredFields[i])
         THEN MissingRequiredField(FirstUntyped(m.etools.obj, SubSeq(RequiredFields, 1, 3)))
    ELSE IF ~CategoryKnown(m) THEN InvalidCategory(m.etools.obj.category.str)
    ELSE IF \E i \in 4..5 : ~FieldTyped(m.etools.obj, RequiredFields[i])
         THEN MissingRequiredField(FirstUntyped(m.etools.obj, SubSeq(RequiredFields, 4, 5)))
    ELSE Pending

C2_FirstFailingStep ==
    Done => IF FirstFailure(input) = Pending THEN output.ok
            ELSE output = FirstFailure(input)

C2_Witness ==
    /\ Done
    /\ HasMeta(input)
    /\ input.name = JStr(Str_ex)
    /\ AllRequired(input)
    /\ CategoryKnown(input)
    /\ output = InvalidPackageName(Str_ex)

\* C3 as claimed: with a namespaced name and an etools object, a missing or
\* mistyped required field always yields MissingRequiredField naming such a
\* field, and five well-typed fields with a known category parse.
C3_ClaimedMissingField ==
    (Done /\ HasNamespacedName(input) /\ HasMeta(input)) =>
        /\ ~AllRequired(input) =>
              /\ Kind(output) = "MissingRequiredField"
              /\ ~FieldTyped(input.etools.obj, output.field)
        /\ (AllRequired(input) /\ CategoryKnown(input)) => output.ok

\* C3 amended: with a namespaced name and an etools object, a missing or
\* mistyped required field makes parsing fail, with MissingRequiredField
\* naming a field that is missing or mistyped, or with InvalidCategory when
\* id, displayName and category are strings and the category is not in the
\* enum; five well-typed fields with a known category parse.
C3_MissingField ==
    (Done /\ HasNamespacedName(input) /\ HasMeta(input)) =>
        /\ ~AllRequired(input) =>
              \/ /\ Kind(output) = "MissingRequiredField"
                 /\ output.field \in {RequiredFields[i] : i \in 1..Len(RequiredFields)}
                 /\ ~FieldTyped(input.etools.obj, output.field)
              \/ /\ Kind(output) = "InvalidCategory"
                 /\ \A i \in 1..3 : FieldTyped(input.etools.obj, RequiredFields[i])
                 /\ ~CategoryKnown(input)
        /\ (AllRequired(input) /\ CategoryKnown(input)) => output.ok

C3_Witness ==
    /\ Done
    /\ HasNamespacedName(input)
    /\ HasMeta(input)
    /\ \A i \in 1..4 : FieldTyped(input.etools.obj, RequiredFields[i])
    /\ CategoryKnown(input)
    /\ input.etools.obj.triggers = JAbsent
    /\ output = MissingRequiredField("triggers")

\* C4: every upper/lower-case spelling of one of the six category names
\* parses to that category, and every other string fails with
\* InvalidCategory carrying the input unchanged.
C4_CategoryCaseInsensitive ==
    Done =>
        /\ \A c \in PluginCategory :
              IsSpelling(input, CategoryNames[c]) => output = Ok(c)
        /\ (\A c \in PluginCategory : ~IsSpelling(input, CategoryNames[c]))
              => output = InvalidCategory(input)

C4_Witness ==
    /\ Done
    /\ input = <<"D","e","V","e","l","O","p","e","R">>
    /\ output = Ok("Developer")

\* C5 as claimed: with the name, etools, required-field and category checks
\* passed, parsing succeeds and every malformed optional field is None.
IsJStr(j) == j.t = "str"
MalformedStr(j) == j.t \notin {"absent", "str"}
MalformedScreenshots(j) ==
    /\ j.t # "absent"
    /\ j.t = "arr" => \E i \in 1..Len(j.arr) : ~IsJStr(j.arr[i])
MalformedSettings(j) ==
    /\ j.t # "absent"
    /\ j.t = "arr" => \E i \in 1..Len(j.arr) : ~setting_ok(j.arr[i])
PassesRequired(m) ==
    HasMeta(m) /\ HasNamespacedName(m) /\ AllRequired(m) /\ CategoryKnown(m)

C5_ClaimedMalformedIsNone ==
    (Done /\ PassesRequired(input)) =>
        /\ output.ok
        /\ MalformedStr(input.etools.obj.icon) => output.v.icon = None
        /\ MalformedStr(input.etools.obj.homepage) => output.v.homepage = None
        /\ MalformedStr(input.etools.obj.description) => output.v.description = None
        /\ MalformedScreenshots(input.etools.obj.screenshots) => output.v.screenshots = None
        /\ MalformedSettings(input.etools.obj.settings) => output.v.settings = None

\* C5 amended: with those checks passed, parsing succeeds for any value of
\* the optional fields; icon and homepage are None unless a string; settings
\* is None unless an array of well-formed descriptors; screenshots is None
\* unless an array, and then holds its string elements in order, the other
\* elements dropped; description is etools.description when a string, else
\* the package-level description when a string, else None.
StringsOf(a) ==
    LET strs == SelectSeq(a, IsJStr) IN [i \in 1..Len(strs) |-> strs[i].str]

C5_OptionalBestEffort ==
    (Done /\ PassesRequired(input)) =>
        /\ output.ok
        /\ output.v.icon.some = IsJStr(input.etools.obj.icon)
        /\ output.v.homepage.some = IsJStr(input.etools.obj.homepage)
        /\ output.v.settings.some =
              (input.etools.obj.settings.t = "arr" /\ ~MalformedSettings(input.etools.obj.settings))
        /\ output.v.screenshots =
              IF input.etools.obj.screenshots.t = "arr"
              THEN Some(StringsOf(input.etools.obj.screenshots.arr))
              ELSE None
        /\ output.v.description =
              IF IsJStr(input.etools.obj.description)
              THEN Some(input.etools.obj.description.str)
              ELSE IF IsJStr(input.description) THEN Some(input.description.str)
              ELSE None

C5_Witness ==
    /\ Done
    /\ PassesRequired(input)
    /\ input.etools.obj.screenshots = JArr(<<JStr(<<"a">>), JNum, JStr(<<"b">>)>>)
    /\ MalformedSettings(input.etools.obj.settings)
    /\ MalformedStr(input.etools.obj.icon)
    /\ output.ok
    /\ output.v.screenshots = Some(<<<<"a">>, <<"b">>>>)
    /\ output.v.settings = None

---------------------------------------------------------------------------
(* Properties of the Enablement store and the lifecycle service *)

StoredFlag(file, id) == map_get(StoreMap(file), id)

OthersKept(before, after, id) ==
    \A j \in PluginIds \ {id} : StoredFlag(after, j) = StoredFlag(before, j)

\* C6: in each store, the value stored for an id is the flag of the last
\* successful enable/disable call applied to that id (so enable, disable,
\* enable leaves true), and a call leaves the entries of all other ids as
\* they were.
C6_LastFlagStored ==
    /\ [](\A i \in PluginIds :
            /\ lastFlag["svc"][i] # "none" =>
                  StoredFlag(svcFile, i) = Some(lastFlag["svc"][i] = "on")
            /\ lastFlag["cmd"][i] # "none" =>
                  StoredFlag(cmdFile, i) = Some(lastFlag["cmd"][i] = "on"))
    /\ [][\A id \in PluginIds, flag \in BOOLEAN :
            /\ SetEnabled(id, flag) =>
                  /\ StoredFlag(svcFile', id) = Some(flag)
                  /\ OthersKept(svcFile, svcFile', id)
            /\ SavePluginEnabledStateOf(id, flag) =>
                  /\ ret'.ok => StoredFlag(cmdFile', id) = Some(flag)
                  /\ OthersKept(cmdFile, cmdFile', id)]_vars

C6_Witness ==
    /\ ret.op = "enable_plugin"
    /\ ret.id = "a"
    /\ now > StateTTL
    /\ StoredFlag(svcFile, "a") = Some(TRUE)
    /\ StoredFlag(svcFile, "b") = Some(FALSE)
    /\ StoredFlag(cmdFile, "a") = Some(TRUE)
    /\ StoredFlag(cmdFile, "b") = Some(FALSE)
    /\ stateCache.v.timestamp = now

\* C7: an id with no entry in the Enablement store reads as enabled:
\* get_plugin_enabled_state returns true for it and list_plugins reports a
\* plugin that is on disk but unknown in the store with enabled = true.
C7_DefaultEnabled ==
    /\ (ret.op = "get_plugin_enabled_state" /\ ret.ok
          /\ ~StoredFlag(cmdFile, ret.id).some) => ret.value
    /\ ret.op = "list_plugins" =>
          \A p \in ret.result :
              (~StoredFlag(svcFile, p.id).some /\ ~StoredFlag(cmdFile, p.id).some)
                  => p.enabled

\* C8 as claimed: list_plugins serves the cache exactly when
\* now - captured < ttl and re-scans once now - captured >= ttl.
C8_ClaimedValidity ==
    [][ListPlugins =>
          (ret'.scanned <=> ~(listCache.some /\ now - listCache.v.timestamp < ListTTL))]_vars

\* C8 amended: a cache entry is valid when now - captured <= ttl (60 s for
\* the list cache, 30 s for the enablement cache). list_plugins serves the
\* cached list exactly when the list entry is valid: it then returns the
\* result of the previous call without scanning, whatever the directory
\* holds now, and leaves the entry alone; once now - captured > ttl (or
\* after an invalidation) it re-scans and repopulates the cache. The
\* enablement entry is read by check_plugin_health under the same rule.
C8_CacheValidity ==
    [][/\ ListPlugins =>
            LET valid == listCache.some /\ now - listCache.v.timestamp <= ListTTL IN
            /\ ret'.scanned <=> ~valid
            /\ valid => (ret'.result = lastList.v /\ listCache' = listCache)
            /\ ~valid => /\ ret'.result = scan_plugins(disk)
                         /\ listCache' = CacheEntry(ret'.result, now)
       /\ \A id \in PluginIds :
            (/\ CheckPluginHealthOf(id)
             /\ disk[id].manifest = "valid"
             /\ stateCache.some
             /\ StoredFlag(FileOf(stateCache.v.data), id) = Some(TRUE))
            => (ret'.status = "Healthy" <=> now - stateCache.v.timestamp <= StateTTL)]_vars

C8_Witness ==
    /\ ret.op = "list_plugins"
    /\ ~ret.scanned
    /\ listCache.some
    /\ now - listCache.v.timestamp = ListTTL
    /\ ret.result # scan_plugins(disk)

\* C9: after enable_plugin / disable_plugin has returned, the next
\* list_plugins re-scans and reports that id with the new enabled value.
C9_ListObservesMutation ==
    [][(ret.op \in {"enable_plugin", "disable_plugin"} /\ ret.ok /\ ListPlugins) =>
          /\ ret'.scanned
          /\ \A p \in ret'.result : p.id = ret.id => p.enabled = ret.flag]_vars

\* C10: check_plugin_health is a function of (directory exists, plugin
\* enabled, manifest readable and parsable): absent -> Error; present and
\* disabled -> Warning; present, enabled, manifest bad -> Error; otherwise
\* Healthy; never Unknown. A plugin is enabled when the Enablement store
\* says so, and by default when the store has no entry for it.
StoreEnabled(id) ==
    IF StoredFlag(svcFile, id).some THEN StoredFlag(svcFile, id).v ELSE TRUE

ClaimedHealth(dir, enabled) ==
    IF ~dir.exists THEN "Error"
    ELSE IF ~enabled THEN "Warning"
    ELSE IF dir.manifest # "valid" THEN "Error"
    ELSE "Healthy"

C10_HealthDeterministic ==
    [][\A id \in PluginIds :
          CheckPluginHealthOf(id) =>
              ret'.status = ClaimedHealth(disk[id], StoreEnabled(id))]_vars


\* C11: every PluginHealth returned by check_plugin_health has last_checked
\* stamped with the time of the call and carries at most one error entry:
\* exactly one when the status is Error, none when it is Healthy or Warning.
C11_HealthStampedOneError ==
    /\ [](ret.op = "check_plugin_health" =>
            /\ ret.status \in {"Error", "Warning", "Healthy"}
            /\ ret.errors = IF ret.status = "Error" THEN 1 ELSE 0
            /\ ret.last_checked <= now)
    /\ [][CheckPluginHealth => ret'.last_checked = now']_vars

C11_Witness ==
    /\ ret.op = "check_plugin_health"
    /\ ret.status = "Warning"
    /\ ret.errors = 0
    /\ ret.last_checked = now
    /\ now > 0
    /\ disk[ret.id].exists

---------------------------------------------------------------------------
(* Properties of bulk operations (SpecBulk) *)

IsBulk == ret.op = "bulk"
Distinct(ids) == \A i, j \in 1..Len(ids) : ids[i] = ids[j] => i = j
Occurrences(results, id) ==
    Cardinality({ i \in 1..Len(results) : results[i].plugin_id = id })
AllSucceeded(results) == \A i \in 1..Len(results) : results[i].success
AllFailed(results) == \A i \in 1..Len(results) : ~results[i].success
Mixed(results) ==
    /\ \E i \in 1..Len(results) : results[i].success
    /\ \E i \in 1..Len(results) : ~results[i].success

\* C12: a bulk call over a duplicate-free id list returns results with exactly
\* one entry per requested id: same length as target_plugin_ids, every
\* requested id once, no other id, whatever the interleaving of the items.
C12_OneResultPerId ==
    (IsBulk /\ Distinct(ret.target_plugin_ids)) =>
        /\ Len(ret.results) = Len(ret.target_plugin_ids)
        /\ \A i \in 1..Len(ret.target_plugin_ids) :
              Occurrences(ret.results, ret.target_plugin_ids[i]) = 1
        /\ \A j \in 1..Len(ret.results) :
              \E i \in 1..Len(ret.target_plugin_ids) :
                  ret.results[j].plugin_id = ret.target_plugin_ids[i]

C12_Witness ==
    /\ IsBulk
    /\ ret.layer = "svc"
    /\ Len(ret.target_plugin_ids) = 2
    /\ Distinct(ret.target_plugin_ids)
    /\ Len(ret.results) = 2
    /\ ret.results[1].plugin_id = ret.target_plugin_ids[2]

\* C13 as claimed: Completed iff every result succeeded, Failed iff every
\* result failed, PartialFailure iff at least one of each.
C13_ClaimedStatus ==
    IsBulk =>
        /\ ret.status = "Completed" <=> AllSucceeded(ret.results)
        /\ ret.status = "Failed" <=> AllFailed(ret.results)
        /\ ret.status = "PartialFailure" <=> Mixed(ret.results)

\* C13 amended: Completed iff every result succeeded (so also when there is
\* no result), Failed iff there is at least one result and every result
\* failed, PartialFailure iff at least one of each.
C13_StatusByMixture ==
    IsBulk =>
        /\ ret.status = "Completed" <=> AllSucceeded(ret.results)
        /\ ret.status = "Failed" <=> (Len(ret.results) > 0 /\ AllFailed(ret.results))
        /\ ret.status = "PartialFailure" <=> Mixed(ret.results)

C13_Witness ==
    /\ IsBulk
    /\ ret.layer = "svc"
    /\ ret.status = "PartialFailure"
    /\ ret.results[1].success
    /\ ~ret.results[2].success

\* C14: bulk_uninstall goes through the whole id list whatever fails: the
\* results follow the list id by id, a result is a failure exactly when the
\* single uninstall of its id fails (its directory exists and cannot be
\* removed), and the directory of every id reported as success is gone.
\* In SpecBulk the steps taken with no parallel bulk operation running before
\* or after them are exactly the bulk_uninstall calls.
UninstallFails(id) == disk[id].exists /\ id \in locked

BulkUninstallStep == ~bulk.active /\ ~bulk'.active /\ IsBulk' /\ ret'.layer = "cmd"

C14_UninstallEachId ==
    [][BulkUninstallStep =>
         /\ Len(ret'.results) = Len(ret'.target_plugin_ids)
         /\ \A j \in 1..Len(ret'.results) :
               /\ ret'.results[j].plugin_id = ret'.target_plugin_ids[j]
               /\ ret'.results[j].success <=> ~UninstallFails(ret'.results[j].plugin_id)
               /\ ret'.results[j].success => ~disk'[ret'.results[j].plugin_id].exists
         /\ \A id \in PluginIds :
               (\A j \in 1..Len(ret'.results) : ret'.results[j].plugin_id # id)
                   => disk'[id] = disk[id]]_vars

C14_Witness ==
    /\ IsBulk
    /\ ret.operation_type = "Uninstall"
    /\ ret.status = "PartialFailure"
    /\ Len(ret.results) = 3
    /\ ret.results[1].success
    /\ ~ret.results[2].success
    /\ ret.results[3].success
    /\ ret.results[3].plugin_id # ret.results[2].plugin_id
    /\ disk[ret.results[2].plugin_id].exists
    /\ ~disk[ret.results[3].plugin_id].exists

\* C15: a bulk call returns a BulkOperation, never an error: its status is
\* Completed, PartialFailure or Failed, completed_at is set, every failed
\* result carries an error message and every successful result carries none.
C15_BulkNeverRaises ==
    IsBulk =>
        /\ ret.ok
        /\ ret.status \in {"Completed", "PartialFailure", "Failed"}
        /\ ret.completed_at.some
        /\ \A j \in 1..Len(ret.results) :
              ret.results[j].success <=> ~ret.results[j].error.some

C15_Witness ==
    /\ IsBulk
    /\ ret.operation_type = "Disable"
    /\ ret.status = "Failed"
    /\ Len(ret.results) = 2
    /\ ret.results[1].error.some
    /\ ret.results[2].error.some
    /\ ret.completed_at.some

\* C16: after bulk_enable (bulk_disable) over pairwise-distinct ids in which
\* every item reports success, the Enablement store file and the enablement
\* cache hold true (false) for every requested id.
HoldsFlag(m, id, flag) == id \in DOMAIN m /\ m[id] = flag

C16_NoLostUpdate ==
    (IsBulk /\ ret.layer = "svc" /\ Distinct(ret.target_plugin_ids)
            /\ AllSucceeded(ret.results)) =>
        \A i \in 1..Len(ret.target_plugin_ids) :
            /\ HoldsFlag(StoreMap(svcFile), ret.target_plugin_ids[i],
                         ret.operation_type = "Enable")
            /\ stateCache.some
            /\ HoldsFlag(stateCache.v.data, ret.target_plugin_ids[i],
                         ret.operation_type = "Enable")

---------------------------------------------------------------------------
(* Properties of install and uninstall (SpecInstall) *)

HasDependency(d, pkg) == d.st = "ok" /\ pkg \in DOMAIN d.map

\* C17: installing a package a second time leaves the dependency manifest as
\* the first install left it: a successful install records the package, and
\* an install of a recorded package changes nothing in the manifest (the key
\* stays, its version specifier is not rewritten).
C17_SecondInstallKeepsManifest ==
    /\ []((ret.op = "marketplace_install" /\ ret.ok) => HasDependency(deps, ret.package))
    /\ [][\A pkg \in Packages :
            (HasDependency(deps, pkg) /\ ret'.op = "marketplace_install"
               /\ MarketplaceInstallOf(pkg)) => deps' = deps]_vars

C17_Witness ==
    /\ ret.op = "marketplace_install"
    /\ ret.err = "already installed"
    /\ HasDependency(deps, ret.package)
    /\ deps.map[ret.package] = "^1.0.0"

\* C18 as claimed: an install of a package that the dependency manifest
\* already records leaves the manifest alone and returns the Plugin record.
C18_ClaimedNoError ==
    [][\A pkg \in Packages :
          (HasDependency(deps, pkg) /\ ret'.op = "marketplace_install"
               /\ MarketplaceInstallOf(pkg)) =>
              /\ deps' = deps
              /\ ret'.ok
              /\ ret'.plugin.some]_vars

\* C18 amended: an install of a package that the dependency manifest already
\* records leaves the manifest alone, does not run the package manager, and
\* is rejected with the error "Plugin <package> already installed"; no
\* Plugin record is returned.
C18_AlreadyInstalledRejected ==
    [][\A pkg \in Packages :
          (HasDependency(deps, pkg) /\ ret'.op = "marketplace_install"
               /\ MarketplaceInstallOf(pkg)) =>
              /\ deps' = deps
              /\ npm' = npm
              /\ ~ret'.ok
              /\ ret'.err = "already installed"
              /\ ~ret'.plugin.some]_vars

C18_Witness ==
    /\ ret.op = "marketplace_install"
    /\ ~ret.ok
    /\ ret.err = "already installed"
    /\ npm[ret.package] = "installed"
    /\ deps.map[ret.package] = "latest"

\* C19: after a successful plugin_uninstall(id) none of the four State Stores
\* (enablement, settings, usage statistics, abbreviations) has an entry for
\* id, and the dependency manifest does not list the package of id.
HasEntry(file, id) == file.st = "ok" /\ id \in DOMAIN file.map

C19_UninstallRemovesAll ==
    (ret.op = "plugin_uninstall" /\ ret.ok) =>
        /\ ~HasEntry(cmdFile, ret.id)
        /\ ~HasEntry(stores.settings, ret.id)
        /\ ~HasEntry(stores.usage, ret.id)
        /\ ~HasEntry(stores.abbreviations, ret.id)
        /\ ~HasDependency(deps, PackageOf(ret.id))

\* C20: plugin_uninstall(id) on an id without State Store entries (each store
\* file missing, or present without an entry for id) never fails on the
\* stores: it completes without error whenever the package manager exits
\* successfully and the dependency manifest can be parsed, and it leaves the
\* entries of every other id as they were.
NoEntry(file, id) == file.st = "absent" \/ (file.st = "ok" /\ id \notin DOMAIN file.map)

NoStateEntries(id) ==
    /\ NoEntry(cmdFile, id)
    /\ NoEntry(stores.settings, id)
    /\ NoEntry(stores.usage, id)
    /\ NoEntry(stores.abbreviations, id)

C20_UninstallWithoutEntries ==
    [][\A id \in PluginIds :
          (ret'.op = "plugin_uninstall" /\ PluginUninstallOf(id)
              /\ NoStateEntries(id)) =>
              /\ ret'.err \in {"", "Failed to parse package.json"}
                               \cup {"npm uninstall failed: " \o e : e \in StderrTexts}
              /\ (ret'.err = "") <=> ret'.ok
              /\ (ret'.err = "Failed to parse package.json") => deps.st = "malformed"
              /\ StoreMap(cmdFile') = StoreMap(cmdFile)
              /\ stores' = stores]_vars

C20_Witness ==
    /\ ret.op = "plugin_uninstall"
    /\ ret.ok
    /\ lastFlag["cmd"][ret.id] = "none"
    /\ cmdFile.st = "ok"
    /\ \E other \in PluginIds : other # ret.id /\ HasEntry(cmdFile, other)
    /\ \E other \in PluginIds : other # ret.id /\ HasEntry(stores.settings, other)
    /\ ~HasEntry(stores.settings, ret.id)

\* C21: when the package manager exits non-zero, plugin_uninstall returns an
\* error made of the captured stderr, has run the subprocess once, and leaves
\* the Enablement store and the dependency manifest as they were.
C21_NpmFailureAborts ==
    [][\A id \in PluginIds :
          (ret'.op = "plugin_uninstall" /\ PluginUninstallOf(id)
              /\ ~ret'.npm_output.success) =>
              /\ ~ret'.ok
              /\ ret'.err = "npm uninstall failed: " \o ret'.npm_output.stderr
              /\ ret'.npm_runs = 1
              /\ cmdFile' = cmdFile
              /\ deps' = deps]_vars

C21_Witness ==
    /\ ret.op = "plugin_uninstall"
    /\ ~ret.npm_output.success
    /\ ret.npm_output.stderr = "EACCES"
    /\ HasEntry(cmdFile, ret.id)
    /\ HasDependency(deps, PackageOf(ret.id))

\* C22: a State Store read takes a missing file for an empty store and
\* propagates a malformed file as an error: an enable, disable or set
\* operation on a store whose file does not parse fails and leaves the file
\* as it is, and on a store whose file is missing it succeeds.
C22_MalformedStorePropagated ==
    [][/\ ((EnablePlugin \/ DisablePlugin) /\ svcFile.st = "malformed") =>
              (~ret'.ok /\ svcFile' = svcFile)
       /\ ((EnablePlugin \/ DisablePlugin) /\ svcFile.st = "absent") => ret'.ok
       /\ (SavePluginEnabledState /\ cmdFile.st = "malformed") =>
              (~ret'.ok /\ cmdFile' = cmdFile)
       /\ (SavePluginEnabledState /\ cmdFile.st = "absent") => ret'.ok]_vars

---------------------------------------------------------------------------
(* Properties of marketplace discovery (SpecMarket, SpecPaging) *)

IsQuery == ret.op \in {"marketplace_list", "marketplace_search"}

\* C23: a list or search call with any u32 page and page size returns a
\* page (it does not panic), and its has_more is (offset + returned_count)
\* < total, where offset is (page - 1) * page_size with page 0 taken as
\* page 1, returned_count the number of raw hits of the page and total the
\* total the registry reports.
C23_HasMoreFormula ==
    IsQuery =>
        /\ ~ret.panic
        /\ ret.ok =>
              ret.result.v.has_more =
                  (saturating_sub(ret.page, 1) * ret.page_size
                      + Len(ret.response.v.objects) < registry.total)

\* C24: a list or search call that reaches the registry returns an error
\* exactly when the search request itself fails; otherwise it returns a page
\* whose plugins are, in hit order, the hits of the response whose package
\* document was fetched, lists its latest version, passes the metadata
\* validator and matches the category filter, every other hit being dropped,
\* also when that leaves no plugin at all.
FilterAdmits(filter, category) ==
    ~filter.some \/ filter.v = Str_all \/ filter.v = CategoryNames[category]

HitValid(hit, filter) ==
    /\ hit.info.fetched
    /\ hit.info.latest.some
    /\ from_package_json(hit.info.latest.v).ok
    /\ FilterAdmits(filter, from_package_json(hit.info.latest.v).v.category)

C24_FailurePolicy ==
    (IsQuery /\ ret.searched.some) =>
        /\ ret.ok <=> ret.searched.v
        /\ ret.ok =>
              LET kept == SelectSeq(ret.response.v.objects,
                                    LAMBDA h : HitValid(h, ret.category))
                  plugins == ret.result.v.plugins
              IN /\ Len(plugins) = Len(kept)
                 /\ \A i \in 1..Len(kept) :
                       /\ plugins[i].package = kept[i].name
                       /\ plugins[i].id = from_package_json(kept[i].info.latest.v).v.id

C24_Witness ==
    /\ IsQuery
    /\ ret.ok
    /\ Len(ret.response.v.objects) = 2
    /\ ~ret.response.v.objects[1].info.fetched
    /\ ~HitValid(ret.response.v.objects[2], ret.category)
    /\ ret.result.v.plugins = <<>>

\* C25: get_plugin(id), once its search request is answered, returns a plugin
\* only if that plugin passed validation and has exactly the id asked for; it
\* fails with "not found" exactly when the registry's search results for id
\* hold no validated hit with that id, and it returns the plugin whenever
\* they hold one.
SearchResultsFor(text) == SelectSeq(registry.hits, LAMBDA h : text \in h.text)

ExactMatches(text) ==
    { i \in 1..Len(SearchResultsFor(text)) :
        /\ HitValid(SearchResultsFor(text)[i], None)
        /\ from_package_json(SearchResultsFor(text)[i].info.latest.v).v.id = text }

C25_GetPluginFindsExactMatch ==
    (ret.op = "marketplace_get_plugin" /\ ret.searched = Some(TRUE)) =>
        /\ ret.ok =>
              /\ ret.plugin.v.id = ret.package_name
              /\ \E i \in ExactMatches(ret.package_name) :
                    SearchResultsFor(ret.package_name)[i].name = ret.plugin.v.package
        /\ (ret.err = "Plugin not found") <=> ExactMatches(ret.package_name) = {}
        /\ ExactMatches(ret.package_name) # {} => ret.ok


---------------------------------------------------------------------------
(* Properties of manifest validation (SpecValidate)                        *)

ManifestErrorKinds ==
    {"EmptyId", "InvalidIdChars", "EmptyName", "EmptyVersion", "EmptyEntry", "EntryMissing"}

Validated == Done /\ input.dir.manifest_exists /\ input.dir.manifest.some

(* the same plugin directory with a manifest that declares no permission   *)
(* and one well-formed trigger                                             *)
WithoutAdvisories(dir) ==
    [dir EXCEPT !.manifest = Some([dir.manifest.v EXCEPT
                                      !.permissions = <<>>,
                                      !.triggers = <<<<"t", ":">>>>])]

(* C26: validate_plugin_manifest separates errors from warnings: is_valid  *)
(* is true exactly when the error list is empty; an unknown permission, an *)
(* empty trigger list and the shell permission each add a warning and do   *)
(* not change the error list; an entry-point file that does not exist      *)
(* always adds an error.                                                   *)
C26_ErrorsAndWarnings ==
    Done =>
        /\ output.v.is_valid <=> (output.v.errors = <<>>)
        /\ Validated =>
            LET m == input.dir.manifest.v
                errors == output.v.errors
                warnings == output.v.warnings
            IN /\ (\E i \in 1..Len(m.permissions) : m.permissions[i] \notin valid_permissions)
                      => InSeq("UnknownPermission", warnings)
               /\ (m.triggers = <<>>) => InSeq("NoTriggers", warnings)
               /\ InSeq("shell", m.permissions) => InSeq("DangerousShell", warnings)
               /\ \A i \in 1..Len(errors) : errors[i] \in ManifestErrorKinds
               /\ errors = validate_plugin_manifest(input.plugin_id,
                                                    WithoutAdvisories(input.dir)).errors
               /\ (m.entry \notin input.dir.files)
                      => (InSeq("EntryMissing", errors) \/ InSeq("EmptyEntry", errors))

(* a manifest whose only defect is the missing entry-point file, declaring *)
(* an unknown permission and shell and no trigger, has been validated      *)
C26_Witness ==
    /\ Validated
    /\ output.v.errors = <<"EntryMissing">>
    /\ ~output.v.is_valid
    /\ InSeq("UnknownPermission", output.v.warnings)
    /\ InSeq("DangerousShell", output.v.warnings)
    /\ InSeq("NoTriggers", output.v.warnings)


---------------------------------------------------------------------------
(* Properties of plugin addressing (SpecAddress)                           *)

IsSetEnabledCmd == ret.op \in {"enable_plugin", "disable_plugin"}

(* C27: enable_plugin / disable_plugin called with the short id "x" and    *)
(* with the package id "@etools-plugin/x" resolve to the same install      *)
(* location and write the same Enablement store entry: the entry of the id *)
(* x, which is the one the listing get_installed_plugins reads for the     *)
(* plugin.                                                                 *)
C27_OneEntryPerPlugin ==
    [][(IsSetEnabledCmd' /\ ret'.ok) =>
          LET id == strip_prefix_or(ret'.plugin_id, "@etools-plugin/")
          IN /\ ret'.install_path = Some(PackageOf(id))
             /\ map_get(StoreMap(cmdFile'), id) = Some(ret'.flag)
             /\ DOMAIN StoreMap(cmdFile') \subseteq DOMAIN StoreMap(cmdFile) \cup {id}
             /\ \A p \in get_installed_plugins(deps', npm', cmdFile').plugins :
                    p.id = id => p.enabled = ret'.flag]_vars


---------------------------------------------------------------------------
(* Properties of the local install (SpecLocal)                             *)

InstalledLocally == ret.op = "install_plugin" /\ ret.ok

(* C28: a successful install_plugin replaces the live directory of the id  *)
(* in full: afterwards plugins/<id> is exactly the source tree given to    *)
(* the call, nothing of the previous installation remains, and installing  *)
(* the same source once more succeeds and leaves the same tree.            *)
C28_InstallReplacesInFull ==
    [][InstalledLocally' =>
          /\ tree'[LivePath] = tree[ret'.plugin_path]
          /\ install_local(tree', ret'.plugin_path).ok
          /\ install_local(tree', ret'.plugin_path).tree = tree']_vars


---------------------------------------------------------------------------
(* Properties of the health check on unknown and absent plugins (Spec)     *)

HealthStepOf(id) ==
    /\ ret'.op = "check_plugin_health"
    /\ ret'.id = id
    /\ CheckPluginHealthOf(id)

NoEnablementEntry(id) ==
    /\ ~StoredFlag(svcFile, id).some
    /\ ~( cache_get(stateCache, StateTTL, now).some
          /\ map_get(cache_get(stateCache, StateTTL, now).v, id).some )

(* C29: check_plugin_health(id) returns Healthy for a plugin whose         *)
(* directory holds a readable, parsable manifest and for which neither the *)
(* Enablement store nor the enablement cache holds an entry: an unknown    *)
(* plugin is enabled by default.                                           *)
C29_UnknownPluginHealthy ==
    [][\A id \in PluginIds :
          (HealthStepOf(id) /\ NoEnablementEntry(id)
             /\ disk[id] = [exists |-> TRUE, manifest |-> "valid"])
          => ret'.status = "Healthy"]_vars

(* C30: check_plugin_health only observes: it leaves the plugin directory, *)
(* the Enablement store and its cache as they were, and a second check of  *)
(* the same id right after it returns the same status; a check of an id    *)
(* without directory returns Error and the directory stays absent.         *)
C30_HealthCheckOnlyObserves ==
    [][\A id \in PluginIds :
          HealthStepOf(id) =>
              /\ disk' = disk
              /\ svcFile' = svcFile
              /\ stateCache' = stateCache
              /\ health_status(disk'[id], health_is_enabled(stateCache', id, now')).status
                     = ret'.status
              /\ ~disk[id].exists => (ret'.status = "Error" /\ ~disk'[id].exists)]_vars


---------------------------------------------------------------------------
(* Properties of concurrent listing and enabling (SpecRace)                *)

(* C31: once an enable_plugin / disable_plugin call has returned, the      *)
(* plugin-list cache is empty or holds a list that was scanned after the   *)
(* state write of that call, in every interleaving with a list_plugins     *)
(* call.                                                                   *)
C31_NoStaleListAfterMutation ==
    listCache.some => calls.stored = lastFlag["svc"]


---------------------------------------------------------------------------
(* Properties of the dependency manifest (SpecManifest)                    *)

(* the document a handler works on: the file, or the one it creates *)
ManifestOrCreated(d) == IF d.st = "absent" THEN EmptyManifest ELSE d

SameBut(before, after, pkg) ==
    /\ after.st = "ok"
    /\ after.fields = before.fields
    /\ DOMAIN after.map \ {pkg} = DOMAIN before.map \ {pkg}
    /\ \A k \in DOMAIN before.map \ {pkg} : after.map[k] = before.map[k]

(* C32: a successful install creates the manifest when it is absent and    *)
(* adds the key of the package and nothing else: every other dependency    *)
(* and the name, version and description fields stay as they were; a       *)
(* successful uninstall removes the key of the package and nothing else;   *)
(* uninstalling right after the install gives back the dependencies object *)
(* the install started from.                                               *)
C32_OneKeyPerInstall ==
    [][/\ (ret'.op = "marketplace_install" /\ ret'.ok) =>
            /\ SameBut(ManifestOrCreated(deps), deps', ret'.package)
            /\ ret'.package \notin DOMAIN StoreMap(deps)
            /\ ret'.package \in DOMAIN deps'.map
            /\ LET id == strip_prefix_or(ret'.package, "@etools-plugin/")
                   back == plugin_uninstall(deps', npm', cmdFile', id, NpmOutput(TRUE, ""))
               IN back.ok /\ back.deps = ManifestOrCreated(deps)
       /\ (ret'.op = "marketplace_uninstall" /\ ret'.ok) =>
            /\ SameBut(deps, deps', ret'.package)
            /\ ret'.package \notin DOMAIN deps'.map
       /\ (ret'.op = "plugin_uninstall" /\ ret'.ok /\ deps.st = "ok") =>
            /\ SameBut(deps, deps', PackageOf(ret'.id))
            /\ PackageOf(ret'.id) \notin DOMAIN deps'.map
       /\ (ret'.op = "plugin_uninstall" /\ ret'.ok /\ deps.st = "absent") =>
            deps' = deps]_vars

(* the second plugin has been installed into a manifest that somebody else *)
(* wrote and that lists the first plugin                                   *)
C32_Witness ==
    /\ ret.op = "marketplace_install"
    /\ ret.ok
    /\ deps.fields.name = "my-plugins"
    /\ DOMAIN deps.map = Packages \cup {"left-pad"}
    /\ deps.map["left-pad"] = "^1.3.0"


(* C33: when install_plugin(package) fails because the package manager     *)
(* exits non-zero, the dependency manifest does not list the package       *)
(* afterwards, and the same install, tried again, is not rejected as       *)
(* already installed.                                                      *)
C33_FailedInstallNotListed ==
    [][(ret'.op = "marketplace_install" /\ ret'.err = "npm install failed") =>
          /\ ~HasDependency(deps', ret'.package)
          /\ \A saved \in VersionSpecs :
                marketplace_install(deps', npm', cmdFile', ret'.package, TRUE, saved).err
                    # "already installed"]_vars


---------------------------------------------------------------------------
(* Properties of concurrent manifest writers (SpecWriters)                 *)

(* C34: the writers of the dependency manifest are serialized: in every    *)
(* interleaving of install and uninstall commands for different packages   *)
(* the write of a command changes the key of its own package only, so the  *)
(* entries written by the commands that completed before it stay (no lost  *)
(* update).                                                                *)
C34_NoLostUpdate ==
    [][(calls.pc = "read" /\ calls'.pc = "idle") =>
          SameBut(deps, deps', PackageOf(calls.id))]_vars

---------------------------------------------------------------------------
(* Properties of the Enablement store on failure (SpecAddress)             *)

(* C35: enable_plugin and disable_plugin change the Enablement store only  *)
(* when they succeed: when the call returns an error the stored flag of    *)
(* every id is the same as before the call.                                *)
C35_FailureKeepsFlags ==
    [][(IsSetEnabledCmd' /\ ~ret'.ok) => cmdFile' = cmdFile]_vars

---------------------------------------------------------------------------
(* Properties of the two writers of enablement flags (SpecEnable)          *)

(* C36: there is a single Enablement store: the flag written by the        *)
(* lifecycle service is the flag get_plugin_enabled_state reads, so after  *)
(* PluginService::disable_plugin(id) has returned,                         *)
(* get_plugin_enabled_state(id) is false.                                  *)
C36_SingleEnablementStore ==
    [][(ret'.op = "disable_plugin" /\ ret'.ok) =>
          /\ cmdFile'.st # "malformed"
          /\ map_get(StoreMap(cmdFile'), ret'.id) = Some(FALSE)]_vars

---------------------------------------------------------------------------
(* Properties of the Settings store (SpecSettings)                         *)

NeverSet(file, plugin_id, key) ==
    \/ file.st = "absent"
    \/ /\ file.st = "ok"
       /\ ~(plugin_id \in DOMAIN file.map /\ key \in DOMAIN file.map[plugin_id])

(* C37: the Settings store is a per-plugin key-value map with independent  *)
(* entries: after set_plugin_setting(p, k, v) succeeds,                    *)
(* get_plugin_setting(p, k) returns v and the value of every other         *)
(* (plugin, key) pair is unchanged; get_plugin_setting for a pair never    *)
(* set, or with the file absent, returns JSON null rather than an error.   *)
C37_IndependentSettings ==
    [][/\ (ret'.op = "set_plugin_setting" /\ ret'.ok) =>
            /\ get_plugin_setting(stores'.settings, ret'.id, ret'.key) =
                   [ok |-> TRUE, value |-> ret'.value]
            /\ \A p \in PluginIds, k \in SettingKeys :
                   <<p, k>> # <<ret'.id, ret'.key>> =>
                       get_plugin_setting(stores'.settings, p, k) =
                           get_plugin_setting(stores.settings, p, k)
       /\ (ret'.op = "get_plugin_setting" /\ NeverSet(stores.settings, ret'.id, ret'.key)) =>
            (ret'.ok /\ ret'.value = JNull)]_vars

(* a setting stored next to another key of the same plugin and next to a   *)
(* setting of another plugin                                               *)
C37_Witness ==
    /\ ret.op = "set_plugin_setting"
    /\ ret.ok
    /\ stores.settings.st = "ok"
    /\ \E k \in SettingKeys \ {ret.key} : k \in DOMAIN stores.settings.map[ret.id]
    /\ \E p \in PluginIds \ {ret.id} : p \in DOMAIN stores.settings.map

---------------------------------------------------------------------------
(* Properties of the validation at local install (SpecLocal)               *)

(* C38: the local install validates the package being installed, not what  *)
(* is already installed: install_plugin(path) on a source directory with a *)
(* parsable manifest and an existing entry file succeeds whether or not a  *)
(* plugin of that id is present in the plugin directory, and on a source   *)
(* that fails validation it returns an error and leaves the plugin         *)
(* directory unchanged.                                                    *)
C38_SourceIsValidated ==
    [][ret'.op = "install_plugin" /\ tree[ret'.plugin_path].exists =>
          LET source_valid ==
                  validate_plugin_manifest(file_name(ret'.plugin_path),
                                           tree[ret'.plugin_path]).is_valid
          IN /\ source_valid => ret'.ok
             /\ ~source_valid => (~ret'.ok /\ tree' = tree)]_vars

---------------------------------------------------------------------------
(* Properties of the update check (SpecUpdates)                            *)

(* C39: check_updates reports an update for a package only when one        *)
(* exists: an entry for an installed package p is returned only if the     *)
(* latest version of p in the registry differs from the version of p that  *)
(* is installed; a package already at the latest version is never          *)
(* reported.                                                               *)
C39_UpdateOnlyWhenNewer ==
    (ret.op = "check_updates" /\ ret.ok) =>
        \A u \in ret.updates :
            (u.package_name \in Packages /\ npm[u.package_name] = "installed") =>
                ret.latest # ret.installed

=============================================================================
